---- MODULE Spec2Model ----
(***************************************************************************)
(* Model of the real-time streaming engine of emst: SSEClient (one         *)
(* connection), SSEStreamManager (the supervisor of the connections and    *)
(* the latest-data cache), the quote decoder and the quote merge.          *)
(***************************************************************************)
EXTENDS Integers, Sequences, FiniteSets, TLC

(***************************************************************************)
(* Program constants (SSE_CONSTANTS).                                      *)
(***************************************************************************)
DEFAULT_RECONNECT_INTERVAL == 5000
DEFAULT_MAX_RECONNECT_ATTEMPTS == 10
DEFAULT_HEARTBEAT_TIMEOUT == 30000
MAX_BACKOFF_INTERVAL == 60000
HEARTBEAT_CHECK_INTERVAL == 10000

(***************************************************************************)
(* JavaScript values.  A raw JSON value is null, a number or a string; a   *)
(* decoded attribute is undefined, a number or a string.  Numbers are      *)
(* exact fractions n/d in lowest terms with d > 0, so that the division by *)
(* 100 of convertPriceFromCents is computed and not assumed away.          *)
(***************************************************************************)
Null == [t |-> "null"]
Undefined == [t |-> "undefined"]
Str(s) == [t |-> "str", s |-> s]
\* an array
List(items) == [t |-> "list", items |-> items]

Abs(i) == IF i < 0 THEN -i ELSE i

RECURSIVE Gcd(_, _)
Gcd(a, b) == IF b = 0 THEN a ELSE Gcd(b, a % b)

Frac(n, d) ==
  LET g == Gcd(Abs(n), Abs(d))
      s == IF d < 0 THEN -1 ELSE 1
  IN  [t |-> "num", n |-> (s * n) \div g, d |-> (s * d) \div g]

Num(i) == [t |-> "num", n |-> i, d |-> 1]

NumSub(a, b) == Frac(a.n * b.d - b.n * a.d, a.d * b.d)
NumMul(a, b) == Frac(a.n * b.n, a.d * b.d)
NumDiv(a, b) == Frac(a.n * b.d, a.d * b.n)
IsZero(a) == a.t = "num" /\ a.n = 0

\* x ?? y
Coalesce(x, y) == IF x.t \in {"null", "undefined"} THEN y ELSE x

\* rawData[field]; a key that is not in the object reads as undefined
Get(rawData, field) ==
  IF field \in DOMAIN rawData THEN rawData[field] ELSE Undefined

\* JavaScript truthiness of a value that is null, undefined, a number, a
\* string (csv: a string with content) or an array
Truthy(v) ==
  CASE v.t = "num" -> v.n # 0
    [] v.t = "str" -> v.s # ""
    [] v.t = "list" -> TRUE
    [] v.t = "csv" -> TRUE
    [] OTHER -> FALSE

(***************************************************************************)
(* utils.ts                                                                *)
(***************************************************************************)
\* a presence test that takes a null for a value
hasField_anyKey(field, rawData) == field \in DOMAIN rawData

hasField(field, rawData) ==
  /\ field \in DOMAIN rawData
  /\ rawData[field] # Undefined
  /\ rawData[field] # Null

convertPriceFromCents(value) == NumDiv(Coalesce(value, Num(0)), Num(100))

calculatePriceChange(latestPrice, previousClose) ==
  IF IsZero(previousClose)
  THEN [changeAmount |-> Undefined, changePercent |-> Undefined]
  ELSE LET changeAmount == NumSub(latestPrice, previousClose)
       IN  [changeAmount |-> changeAmount,
            changePercent |-> NumMul(NumDiv(changeAmount, previousClose), Num(100))]

(***************************************************************************)
(* sse-parser: parseSSEQuoteData.  A raw response is the JSON envelope     *)
(* [rt, rc, svr, data]; data is Null or a function from field codes to     *)
(* raw values.  `now` is the value of Date.now() at the call.              *)
(***************************************************************************)
RT_HEARTBEAT == 2
RT_QUOTE == 4
RT_TREND == 10
RT_DETAIL == 12

\* !rawResponse.data
NoData(rawResponse) == Get(rawResponse, "data") \in {Undefined, Null}

parseSSEQuoteData(rawResponse, symbol, market, now) ==
  IF Get(rawResponse, "rt") # Num(RT_QUOTE) THEN Null
  ELSE IF Get(rawResponse, "rc") # Num(0) \/ NoData(rawResponse) THEN Null
  ELSE
    LET data == rawResponse.data
        g(f) == Get(data, f)
        opt(f) == IF hasField(f, data) THEN g(f) ELSE Undefined
        latestPrice ==
          convertPriceFromCents(Coalesce(g("f43"), Coalesce(g("f60"), g("f301"))))
        previousClose == convertPriceFromCents(g("f45"))
        high == convertPriceFromCents(g("f46"))
        change == calculatePriceChange(latestPrice, previousClose)
    IN  [ symbol |-> Coalesce(g("f57"), symbol),
          name |-> IF hasField("f58", data) THEN Coalesce(g("f58"), Str("")) ELSE Str(""),
          market |-> Coalesce(g("f107"), market),
          latestPrice |-> latestPrice,
          open |-> convertPriceFromCents(g("f44")),
          previousClose |-> previousClose,
          high |-> high,
          low |-> high,
          volume |-> Coalesce(g("f47"), Num(0)),
          amount |-> Coalesce(g("f48"), Num(0)),
          changeAmount |-> change.changeAmount,
          changePercent |-> change.changePercent,
          totalMarketValue |-> Coalesce(g("f84"), g("f116")),
          circulatingMarketValue |-> Coalesce(g("f85"), g("f117")),
          timestamp |-> IF Truthy(g("f86")) THEN NumMul(g("f86"), Num(1000)) ELSE Num(now),
          svr |-> Get(rawResponse, "svr"),
          rawData |-> data,
          buy1Price |-> IF hasField("f51", data) THEN convertPriceFromCents(g("f51")) ELSE Undefined,
          sell1Price |-> IF hasField("f52", data) THEN convertPriceFromCents(g("f52")) ELSE Undefined,
          buy1Volume |-> opt("f161"),
          buy2Volume |-> opt("f162"),
          buy3Volume |-> opt("f163"),
          buy4Volume |-> opt("f164"),
          sell1Volume |-> opt("f167"),
          sell2Volume |-> opt("f168"),
          sell3Volume |-> opt("f169"),
          sell4Volume |-> opt("f170"),
          volumeRatio |-> opt("f92"),
          turnoverRate |-> opt("f107"),
          peRatio |-> opt("f111") ]

(***************************************************************************)
(* SSEStreamManager.mergeQuoteData                                         *)
(***************************************************************************)
FIELD_MAPPINGS ==
  << <<"f57", <<"symbol">> >>,
     <<"f43", <<"latestPrice">> >>,
     <<"f60", <<"latestPrice">> >>,
     <<"f301", <<"latestPrice">> >>,
     <<"f58", <<"name">> >>,
     <<"f107", <<"market", "turnoverRate">> >>,
     <<"f44", <<"open">> >>,
     <<"f45", <<"previousClose">> >>,
     <<"f46", <<"high", "low">> >>,
     <<"f47", <<"volume">> >>,
     <<"f48", <<"amount">> >>,
     <<"f51", <<"buy1Price">> >>,
     <<"f52", <<"sell1Price">> >>,
     <<"f161", <<"buy1Volume">> >>,
     <<"f162", <<"buy2Volume">> >>,
     <<"f163", <<"buy3Volume">> >>,
     <<"f164", <<"buy4Volume">> >>,
     <<"f167", <<"sell1Volume">> >>,
     <<"f168", <<"sell2Volume">> >>,
     <<"f169", <<"sell3Volume">> >>,
     <<"f170", <<"sell4Volume">> >>,
     <<"f84", <<"totalMarketValue">> >>,
     <<"f116", <<"totalMarketValue">> >>,
     <<"f85", <<"circulatingMarketValue">> >>,
     <<"f117", <<"circulatingMarketValue">> >>,
     <<"f92", <<"volumeRatio">> >>,
     <<"f111", <<"peRatio">> >> >>

\* merged[t] = newData[t] for every t of targets
RECURSIVE AssignTargets(_, _, _)
AssignTargets(merged, newData, targets) ==
  IF targets = <<>> THEN merged
  ELSE AssignTargets([merged EXCEPT ![Head(targets)] = newData[Head(targets)]],
                     newData, Tail(targets))

\* a loop that copies every mapped attribute, present or not
RECURSIVE ApplyMappings_always(_, _, _)
ApplyMappings_always(merged, newData, i) ==
  IF i > Len(FIELD_MAPPINGS) THEN merged
  ELSE ApplyMappings_always(AssignTargets(merged, newData, FIELD_MAPPINGS[i][2]),
                            newData, i + 1)

\* the loop over Object.entries(FIELD_MAPPINGS), from entry i on
RECURSIVE ApplyMappings(_, _, _)
ApplyMappings(merged, newData, i) ==
  IF i > Len(FIELD_MAPPINGS) THEN merged
  ELSE LET field == FIELD_MAPPINGS[i][1]
           targets == FIELD_MAPPINGS[i][2]
       IN  ApplyMappings(IF hasField(field, newData.rawData)
                           THEN AssignTargets(merged, newData, targets)
                           ELSE merged,
                         newData, i + 1)

\* { ...a, ...b }
Spread(a, b) ==
  [k \in DOMAIN a \cup DOMAIN b |-> IF k \in DOMAIN b THEN b[k] ELSE a[k]]

\* a merge that leaves the change figures as they were cached
mergeQuoteData_noRecompute(cached, newData) ==
  LET base == [cached EXCEPT !.rawData = Spread(cached.rawData, newData.rawData)]
      mapped == ApplyMappings(base, newData, 1)
  IN  [mapped EXCEPT !.timestamp = newData.timestamp, !.svr = newData.svr]

\* a merge that recomputes the change from the cached latest price
mergeQuoteData_staleChange(cached, newData) ==
  LET base == [cached EXCEPT !.rawData = Spread(cached.rawData, newData.rawData)]
      mapped == ApplyMappings(base, newData, 1)
      stamped == [mapped EXCEPT !.timestamp = newData.timestamp, !.svr = newData.svr]
  IN  IF cached.latestPrice # Undefined /\ stamped.previousClose # Undefined
      THEN LET change == calculatePriceChange(cached.latestPrice, stamped.previousClose)
           IN  [stamped EXCEPT !.changeAmount = change.changeAmount,
                               !.changePercent = change.changePercent]
      ELSE stamped

mergeQuoteData(cached, newData) ==
  LET base == [cached EXCEPT !.rawData = Spread(cached.rawData, newData.rawData)]
      mapped == ApplyMappings(base, newData, 1)
      stamped == [mapped EXCEPT !.timestamp = newData.timestamp, !.svr = newData.svr]
  IN  IF stamped.latestPrice # Undefined /\ stamped.previousClose # Undefined
      THEN LET change == calculatePriceChange(stamped.latestPrice, stamped.previousClose)
           IN  [stamped EXCEPT !.changeAmount = change.changeAmount,
                               !.changePercent = change.changePercent]
      ELSE stamped

(***************************************************************************)
(* sse-parser: trend, detail and news decoders, heartbeat test.  A tuple   *)
(* string "a,b,c" is the sequence of its comma-separated parts; a part is  *)
(* numeric text (a number) or other text (a string).                       *)
(***************************************************************************)
\* parseFloat(part) || 0
parseFloatOr0(part) == IF part.t = "num" THEN part ELSE Num(0)

\* parseInt(part): the integer part of numeric text, NaN (Undefined) otherwise
parseInt(part) ==
  IF part.t = "num"
  THEN Num((IF part.n < 0 THEN -1 ELSE 1) * (Abs(part.n) \div part.d))
  ELSE Undefined

parseIntOr(part, dflt) ==
  LET v == parseInt(part) IN IF Truthy(v) THEN v ELSE Num(dflt)

\* a string of comma-separated values, by its parts
Csv(parts) == [t |-> "csv", parts |-> parts]

\* the outcome of a decoder that raises a TypeError
Thrown == [t |-> "thrown"]

\* the loop over trendsArray: trendStr.split raises when an element is not
\* a string
RECURSIVE TrendRecords(_)
TrendRecords(trendsArray) ==
  IF trendsArray = <<>> THEN List(<<>>)
  ELSE IF Head(trendsArray).t # "csv" THEN Thrown
  ELSE LET parts == Head(trendsArray).parts
           rest == TrendRecords(Tail(trendsArray))
       IN  IF rest = Thrown THEN Thrown
           ELSE IF Len(parts) >= 8
           THEN List(<< [ time |-> parts[1],
                          price |-> parseFloatOr0(parts[2]),
                          high |-> parseFloatOr0(parts[3]),
                          low |-> parseFloatOr0(parts[4]),
                          open |-> parseFloatOr0(parts[5]),
                          volume |-> parseIntOr(parts[6], 0),
                          amount |-> parseFloatOr0(parts[7]),
                          avgPrice |-> parseFloatOr0(parts[8]) ] >> \o rest.items)
           ELSE rest

\* for (const x of value): an array gives its elements, a string its
\* characters (none of which splits into several parts), and a number is
\* not iterable
Iterate(value) ==
  CASE value.t = "list" -> List(value.items)
    [] value.t \in {"str", "csv"} -> List(<<>>)
    [] OTHER -> Thrown

parseSSETrendData(rawResponse) ==
  IF Get(rawResponse, "rt") # Num(RT_TREND) THEN Null
  ELSE IF \/ Get(rawResponse, "rc") # Num(0)
          \/ NoData(rawResponse)
          \/ ~Truthy(Get(rawResponse.data, "trends"))
  THEN Null
  ELSE LET trendsArray == Iterate(rawResponse.data.trends)
           trends == IF trendsArray = Thrown THEN Thrown
                     ELSE TrendRecords(trendsArray.items)
       IN  IF trends = Thrown THEN Thrown
           ELSE IF Len(trends.items) > 0 THEN trends ELSE Null

RECURSIVE DetailRecords(_)
DetailRecords(detailsArray) ==
  IF detailsArray = <<>> THEN List(<<>>)
  ELSE IF Head(detailsArray).t # "csv" THEN Thrown
  ELSE LET parts == Head(detailsArray).parts
           rest == DetailRecords(Tail(detailsArray))
       IN  IF rest = Thrown THEN Thrown
           ELSE IF Len(parts) >= 5
           THEN List(<< [ time |-> parts[1],
                          price |-> parseFloatOr0(parts[2]),
                          volume |-> parseIntOr(parts[3], 0),
                          direction |-> IF parseInt(parts[4]) = Num(1) THEN "buy" ELSE "sell",
                          type |-> parseIntOr(parts[5], 1) ] >> \o rest.items)
           ELSE rest

parseSSEDetailData(rawResponse) ==
  IF Get(rawResponse, "rt") # Num(RT_DETAIL) THEN Null
  ELSE IF \/ Get(rawResponse, "rc") # Num(0)
          \/ NoData(rawResponse)
          \/ ~Truthy(Get(rawResponse.data, "details"))
  THEN Null
  ELSE LET detailsArray == Iterate(rawResponse.data.details)
           details == IF detailsArray = Thrown THEN Thrown
                      ELSE DetailRecords(detailsArray.items)
       IN  IF details = Thrown THEN Thrown
           ELSE IF Len(details.items) > 0 THEN details ELSE Null

\* rawData is the text of a frame: [json |-> FALSE] does not parse, and
\* [json |-> TRUE, value |-> v] parses to the object v
parseSSENewsData(rawData, now) ==
  IF ~rawData.json THEN Null
  ELSE LET data == rawData.value
       IN  IF Truthy(Get(data, "type")) /\ Get(data, "seq").t = "num"
           THEN [ type |-> data.type,
                  seq |-> data.seq,
                  content |-> IF Truthy(Get(data, "content")) THEN data.content ELSE Str(""),
                  timestamp |-> Num(now) ]
           ELSE Null

parseSSEResponse(rawData) == IF rawData.json THEN rawData.value ELSE Null

isHeartbeat(rawResponse) == Get(rawResponse, "rt") = Num(RT_HEARTBEAT)

(***************************************************************************)
(* SSEMessageHandler.  The payload handed to the message handler is the    *)
(* text of the frame (news) or the parsed envelope (other kinds).          *)
(***************************************************************************)
\* typeof rawData === 'string': the text of a frame, or a string that
\* JSON.parse made of the text
IsString(rawData) ==
  \/ "json" \in DOMAIN rawData
  \/ ("t" \in DOMAIN rawData /\ rawData.t = "str")

isValidDataType(rawData, type) ==
  IF type = "news" THEN IsString(rawData) ELSE ~IsString(rawData)

parseMessage(rawData, type, options, now) ==
  CASE type = "quote" ->
         IF ~IsString(rawData)
         THEN parseSSEQuoteData(rawData, Str(options.symbol), Num(options.market), now)
         ELSE Null
    [] type = "trend" -> IF ~IsString(rawData) THEN parseSSETrendData(rawData) ELSE Null
    [] type = "detail" -> IF ~IsString(rawData) THEN parseSSEDetailData(rawData) ELSE Null
    [] type = "news" -> IF IsString(rawData) THEN parseSSENewsData(rawData, now) ELSE Null
    [] OTHER -> Null

(***************************************************************************)
(* Bounds and inputs of the streaming model.                               *)
(***************************************************************************)
MaxClients == 2            \* SSEClient objects constructed in one run of Spec
MaxTransports == 2         \* EventSource objects constructed in one run of Spec
ConnMaxClients == 1        \* SSEClient objects constructed in one run of ConnSpec
ConnMaxTransports == 2     \* EventSource objects constructed in one run of ConnSpec
MaxTimerConnects == 1      \* connect() calls of one client's timers awaiting a token
MaxTicks == 2              \* clock advances in one run of ConnSpec
FailuresCounted == 2       \* consecutive transport failures told apart: 0, 1, .. or more

\* one clock advance: longer than the default heartbeat timeout
TickMs == HEARTBEAT_CHECK_INTERVAL * 4

Kinds == {"quote", "trend", "detail", "news"}

InstrumentX == [market |-> 1, symbol |-> "600000"]
InstrumentY == [market |-> 0, symbol |-> "000001"]
Instruments == {InstrumentX, InstrumentY}

\* values of options.types offered to startStream; given = FALSE is "no types"
NoTypes == [given |-> FALSE, list |-> <<>>]
TypeLists == { [given |-> TRUE, list |-> <<"quote", "trend">>] }

\* reconnection options offered to startStream; Undefined is "not given"
DefaultOptions ==
  [reconnectInterval |-> Undefined, maxReconnectAttempts |-> Undefined,
   heartbeatTimeout |-> Undefined]
OneAttemptOptions == [DefaultOptions EXCEPT !.maxReconnectAttempts = Num(1)]
CustomOptions ==
  [reconnectInterval |-> Num(20000), maxReconnectAttempts |-> Num(2),
   heartbeatTimeout |-> Num(TickMs)]
\* every option configured as 0
ZeroOptions ==
  [reconnectInterval |-> Num(0), maxReconnectAttempts |-> Num(0),
   heartbeatTimeout |-> Num(0)]
OptionSets == {OneAttemptOptions}
ConfiguredOptionSets == {ZeroOptions, CustomOptions}
ConnOptionSets == {DefaultOptions, CustomOptions}

\* the caller's callback pairs (onData, onError)
Callbacks == {"cb1", "cb2"}

\* x || dflt for an optional numeric option
OrDefault(x, dflt) == IF Truthy(x) THEN x.n ELSE dflt

QuoteFrame1 ==
  [rt |-> Num(RT_QUOTE), rc |-> Num(0), svr |-> Num(13),
   data |-> [f43 |-> Num(1000), f45 |-> Num(800), f86 |-> Num(1700)]]
QuoteFrame2 ==
  [rt |-> Num(RT_QUOTE), rc |-> Num(0), svr |-> Num(16),
   data |-> [f47 |-> Num(5), f86 |-> Num(1701)]]
TrendFrame ==
  [rt |-> Num(RT_TREND), rc |-> Num(0), svr |-> Num(13),
   data |-> [trends |-> List(
     << Csv(<<Str("09:30"), Num(791), Num(791), Num(790), Num(791), Num(22772),
              Num(18012652), Num(791)>>),
        Csv(<<Str("09:31"), Num(792)>>) >>)]]
HeartbeatFrame == [rt |-> Num(RT_HEARTBEAT), rc |-> Num(0), svr |-> Num(13), data |-> Null]

\* the texts a transport may deliver as event.data
Text(v) == [json |-> TRUE, value |-> v]
WireFrames == { Text(QuoteFrame1), Text(HeartbeatFrame) }

\* the quote frames of QuoteSpec: a first frame, then frames that carry up
\* to MaxDeltaFields of the codes DeltaCodes, each null or a number
MaxReceived == 3           \* quote frames delivered in one run of QuoteSpec
MaxDeltaFields == 2        \* raw fields in one partial quote frame

QuoteFrame3 ==
  [rt |-> Num(RT_QUOTE), rc |-> Num(0), svr |-> Num(13),
   data |-> [f60 |-> Num(900), f45 |-> Num(0), f46 |-> Num(1100), f116 |-> Num(5000),
             f107 |-> Num(1), f58 |-> Str("PF Bank")]]
FirstTexts == { Text(QuoteFrame1), Text(QuoteFrame2), Text(QuoteFrame3) }

DeltaCodes == {"f43", "f60", "f45", "f46", "f47"}
DeltaValues == {Null, Num(0), Num(1500)}
DeltaData ==
  UNION { [codes -> DeltaValues] :
            codes \in {s \in SUBSET DeltaCodes : Cardinality(s) \in 1..MaxDeltaFields} }
DeltaTexts ==
  { Text([rt |-> Num(RT_QUOTE), rc |-> Num(0), svr |-> Num(16), data |-> d]) :
      d \in DeltaData }

\* the frames of RestartSpec: a full quote frame, two partial ones and a
\* heartbeat
RestartMaxClients == 2     \* SSEClient objects constructed in one run of RestartSpec
RestartMaxTransports == 2  \* EventSource objects constructed in one run of RestartSpec

PriceFrame ==
  [rt |-> Num(RT_QUOTE), rc |-> Num(0), svr |-> Num(16), data |-> [f43 |-> Num(1500)]]
RestartTexts ==
  { Text(QuoteFrame1), Text(QuoteFrame2), Text(PriceFrame), Text(HeartbeatFrame) }

\* the frames of FrameSpec: well-formed and malformed frames of every kind
FrameMaxClients == 2       \* SSEClient objects constructed in one run of FrameSpec
FrameMaxTransports == 2    \* EventSource objects constructed in one run of FrameSpec

FrameTypeLists ==
  { [given |-> TRUE, list |-> <<>>] }
    \cup { [given |-> TRUE, list |-> <<type>>] : type \in Kinds }

DetailFrame ==
  [rt |-> Num(RT_DETAIL), rc |-> Num(0), svr |-> Num(13),
   data |-> [details |-> List(
     << Csv(<<Str("14:56:15"), Num(869), Num(5), Num(1), Num(1)>>) >>)]]
\* a second trend frame, one tuple, with a price that is not numeric text
TrendFrame2 ==
  [rt |-> Num(RT_TREND), rc |-> Num(0), svr |-> Num(13),
   data |-> [trends |-> List(
     << Csv(<<Str("09:32"), Str("-"), Num(793), Num(792), Num(792), Num(100),
              Num(79300), Num(792)>>) >>)]]
\* a second detail frame, a sell
DetailFrame2 ==
  [rt |-> Num(RT_DETAIL), rc |-> Num(0), svr |-> Num(13),
   data |-> [details |-> List(
     << Csv(<<Str("14:56:18"), Num(870), Num(2), Num(2), Num(1)>>),
        Csv(<<Str("14:56:19"), Num(870)>>) >>)]]
\* {"rt":10,"rc":0,"data":{"trends":["09:31,7.92"]}}: too few values
ShortTrendFrame ==
  [rt |-> Num(RT_TREND), rc |-> Num(0), svr |-> Num(13),
   data |-> [trends |-> List(<< Csv(<<Str("09:31"), Num(792)>>) >>)]]
\* {"rt":10,"rc":0,"data":{"trends":[5]}}: an element that is not a string
BadTrendFrame ==
  [rt |-> Num(RT_TREND), rc |-> Num(0), svr |-> Num(13),
   data |-> [trends |-> List(<< Num(5) >>)]]
\* {"rt":12,"rc":0,"data":{"details":7}}: details is not an array
BadDetailFrame ==
  [rt |-> Num(RT_DETAIL), rc |-> Num(0), svr |-> Num(13),
   data |-> [details |-> Num(7)]]
NewsItem == [type |-> Str("flash"), seq |-> Num(1), content |-> Str("text")]
\* a news item without its sequence number
BadNewsItem == [type |-> Str("flash"), content |-> Str("text")]
\* a frame whose message-type code is the heartbeat's and that carries the
\* attributes of a news item
HeartbeatNewsFrame ==
  [rt |-> Num(RT_HEARTBEAT), type |-> Str("flash"), seq |-> Num(2)]
\* text that JSON.parse rejects
NotJson == [json |-> FALSE]
\* the JSON text "ok", which parses to a string
JsonString == Text(Str("ok"))

HeartbeatTexts == { Text(HeartbeatFrame), Text(HeartbeatNewsFrame) }
UndecodableTexts ==
  { NotJson, Text(ShortTrendFrame), Text(BadTrendFrame), Text(BadDetailFrame),
    Text(BadNewsItem) }
FrameTexts ==
  { Text(QuoteFrame1), Text(TrendFrame), Text(TrendFrame2), Text(DetailFrame),
    Text(DetailFrame2), Text(NewsItem), JsonString }
    \cup HeartbeatTexts \cup UndecodableTexts

\* news items whose type is a number, whose type is the empty string and
\* whose sequence number is a string
NumberTypeNewsItem == [type |-> Num(7), seq |-> Num(3), content |-> Str("text")]
EmptyTypeNewsItem == [type |-> Str(""), seq |-> Num(4), content |-> Str("text")]
StringSeqNewsItem == [type |-> Str("flash"), seq |-> Str("5"), content |-> Str("text")]
NewsTexts ==
  { Text(NewsItem), Text(BadNewsItem), Text(NumberTypeNewsItem), Text(EmptyTypeNewsItem),
    Text(StringSeqNewsItem), Text(HeartbeatNewsFrame), JsonString, NotJson }
NewsTypes == [given |-> TRUE, list |-> <<"news">>]

(***************************************************************************)
(* State.                                                                  *)
(***************************************************************************)
VARIABLES
  clients,            \* SSEStreamManager.clients: client key -> client id, 0 = no entry
  latestData,         \* SSEStreamManager.latestData: instrument -> kind -> value
  heartbeatInterval,  \* SSEStreamManager.heartbeatInterval is armed
  isRunning,          \* SSEStreamManager.isRunning
  client,             \* the SSEClient objects constructed so far, by id
  transport,          \* the EventSource objects constructed so far, by id
  calls,              \* startStream invocations suspended at `await client.connect`
  timerConnects,      \* per client: connect() calls made by timers, awaiting the token
  now,                \* Date.now()
  ticks,              \* clock advances so far
  event,              \* what the last step did and which callback it invoked
  received,           \* QuoteSpec: the texts the quote connection has delivered;
                      \* FrameSpec: the last text delivered, with its transport
  watchlistFile,      \* .emst/watchlist.json: the entries stored
  cacheFiles,         \* .emst/cache: cache file key -> the records stored, or NoFile
  ret                 \* the last call of utils or storage: its arguments and outcome

sysVars == <<clients, latestData, heartbeatInterval, isRunning, client, transport,
             calls, timerConnects, now, ticks, event, received>>

\* the files of the storage modules and the outcome of the last call
storeVars == <<watchlistFile, cacheFiles, ret>>

ClientKeys == Instruments \X Kinds

\* getStreamKey / `${key}:${type}`
getStreamKey(symbol, market) == [market |-> market, symbol |-> symbol]
ClientKey(key, type) == <<key, type>>

\* the characters of the key strings, for the prefix test of stopStream and
\* isStreamActive: `${market}:${symbol}` and `${key}:${type}`, the market
\* number in decimal digits, the type as one unit after the last colon
DecimalDigits == <<"0", "1", "2", "3", "4", "5", "6", "7", "8", "9">>

RECURSIVE DecimalText(_)
DecimalText(n) ==
  IF n < 10 THEN <<DecimalDigits[n + 1]>>
  ELSE DecimalText(n \div 10) \o <<DecimalDigits[(n % 10) + 1]>>

Characters(symbol) ==
  CASE symbol = "600000" -> <<"6", "0", "0", "0", "0", "0">>
    [] symbol = "000001" -> <<"0", "0", "0", "0", "0", "1">>

streamKeyText(key) == DecimalText(key.market) \o <<":">> \o Characters(key.symbol)
clientKeyText(k) == streamKeyText(k[1]) \o <<":">> \o <<k[2]>>

startsWith(text, prefix) ==
  /\ Len(prefix) <= Len(text)
  /\ SubSeq(text, 1, Len(prefix)) = prefix

\* the client keys that start with `${key}:`
KeysWithPrefix(key) ==
  {k \in ClientKeys : startsWith(clientKeyText(k), streamKeyText(key) \o <<":">>)}

ClientIds == 1..Len(client)
TransportIds == 1..Len(transport)

\* event: cb is the callback the step invoked on the caller ("none", "onData",
\* "onError"), who the clients the step ran on, info what the step did
\* ("connect": a connect() call passed its guard, "armed": a reconnect timer
\* was armed, "cancelled": a pending reconnect timer was cleared, "timedOut":
\* checkHeartbeat returned false, "error": a transport error was handled,
\* "thrown": startStream threw, "frame": the message handler caught an
\* error), skipped the clients whose kind startStream skipped as already
\* registered, data the value handed to onData and seen the cache entry of
\* the connection's instrument and kind at the moment onData is invoked
NoEvent ==
  [cb |-> "none", who |-> {}, info |-> {}, skipped |-> {},
   data |-> Undefined, seen |-> Undefined]
Ev(cb, who, info) == [NoEvent EXCEPT !.cb = cb, !.who = who, !.info = info]

SysInit ==
  /\ clients = [k \in ClientKeys |-> 0]
  /\ latestData = [i \in Instruments |-> [k \in Kinds |-> Undefined]]
  /\ heartbeatInterval = FALSE
  /\ isRunning = FALSE
  /\ client = <<>>
  /\ transport = <<>>
  /\ calls = {}
  /\ timerConnects = <<>>
  /\ now = 0
  /\ ticks = 0
  /\ event = NoEvent
  /\ received = <<>>

(***************************************************************************)
(* SSEClient                                                               *)
(***************************************************************************)
\* new SSEClient(options, messageHandler, errorHandler); key, type and cb
\* are what the two handler closures and connect(type) capture; failures is
\* history: the transport errors handled since the last open, counted up to
\* maxReconnectAttempts and no further than FailuresCounted; timers is the
\* number of setTimeout callbacks of scheduleReconnect that are pending
NewClient(key, type, options, cb) ==
  [ key |-> key, type |-> type, options |-> options, cb |-> cb,
    eventSource |-> 0, reconnectTimer |-> 0, reconnectAttempts |-> 0,
    isConnected |-> FALSE, isClosing |-> FALSE, lastHeartbeat |-> now,
    failures |-> 0, timers |-> 0 ]

\* connect(): the guard before the token is awaited
ConnectGuard(cl) == ~(cl.isConnected \/ cl.isClosing)

\* new EventSource(url, ...) in connect() of client c
NewTransport(c) == [owner |-> c, readyState |-> "connecting"]

\* connect() after the token has arrived: the client as it is afterwards
ConnectOpen(cl) == [cl EXCEPT !.eventSource = Len(transport) + 1]

RECURSIVE Pow2(_)
Pow2(n) == IF n = 0 THEN 1 ELSE 2 * Pow2(n - 1)

Min(a, b) == IF a < b THEN a ELSE b

\* an interval without the cap
ReconnectDelay_uncapped(cl) ==
  OrDefault(cl.options.reconnectInterval, DEFAULT_RECONNECT_INTERVAL)
    * Pow2(cl.reconnectAttempts)

\* the interval scheduleReconnect computes
ReconnectDelay(cl) ==
  LET baseInterval == OrDefault(cl.options.reconnectInterval, DEFAULT_RECONNECT_INTERVAL)
      backoffInterval == baseInterval * Pow2(cl.reconnectAttempts)
  IN  Min(backoffInterval, MAX_BACKOFF_INTERVAL)

MaxAttempts(cl) ==
  OrDefault(cl.options.maxReconnectAttempts, DEFAULT_MAX_RECONNECT_ATTEMPTS)

\* a scheduleReconnect that does not look for a pending timer
scheduleReconnect_noPendingCheck(cl) ==
  IF cl.isClosing THEN cl
  ELSE IF cl.reconnectAttempts >= MaxAttempts(cl) THEN cl
  ELSE [cl EXCEPT !.reconnectAttempts = @ + 1, !.reconnectTimer = ReconnectDelay(cl),
                  !.timers = @ + 1]

\* scheduleReconnect(type): the client as it is afterwards
scheduleReconnect(cl) ==
  IF cl.isClosing \/ cl.reconnectTimer # 0 THEN cl
  ELSE IF cl.reconnectAttempts >= MaxAttempts(cl) THEN cl
  ELSE [cl EXCEPT !.reconnectAttempts = @ + 1, !.reconnectTimer = ReconnectDelay(cl),
                  !.timers = @ + 1]

\* eventSource.onerror: the client as it is afterwards
OnError(cl) ==
  LET down == [cl EXCEPT !.isConnected = FALSE]
  IN  IF ~down.isClosing THEN scheduleReconnect(down) ELSE down

\* eventSource.onopen: the client as it is afterwards
OnOpen(cl) ==
  [cl EXCEPT !.isConnected = TRUE, !.reconnectAttempts = 0, !.lastHeartbeat = now]

HeartbeatTimeout(cl) ==
  OrDefault(cl.options.heartbeatTimeout, DEFAULT_HEARTBEAT_TIMEOUT)

\* a checkHeartbeat() that fails at the timeout, not after it
checkHeartbeat_atTimeout(cl) ==
  ~(now - cl.lastHeartbeat >= HeartbeatTimeout(cl) /\ cl.isConnected)

\* checkHeartbeat(): the value it returns
checkHeartbeat(cl) == ~(now - cl.lastHeartbeat > HeartbeatTimeout(cl) /\ cl.isConnected)

\* checkHeartbeat(): the client as it is afterwards
AfterCheckHeartbeat(cl) ==
  IF checkHeartbeat(cl) THEN cl ELSE [cl EXCEPT !.isConnected = FALSE]

\* a close() that leaves the reconnect timer pending
close_keepsTimer(cl) ==
  [cl EXCEPT !.isClosing = TRUE, !.eventSource = 0, !.isConnected = FALSE]

\* a close() that keeps the handle of the transport it closed
close_keepsHandle(cl) ==
  [cl EXCEPT !.isClosing = TRUE, !.reconnectTimer = 0, !.isConnected = FALSE,
             !.timers = IF cl.reconnectTimer # 0 THEN @ - 1 ELSE @]

\* close(): the client as it is afterwards
close(cl) ==
  [cl EXCEPT !.isClosing = TRUE, !.reconnectTimer = 0, !.eventSource = 0,
             !.isConnected = FALSE,
             !.timers = IF cl.reconnectTimer # 0 THEN @ - 1 ELSE @]

isActive(cl) == cl.isConnected /\ ~cl.isClosing

(***************************************************************************)
(* SSEStreamManager                                                        *)
(***************************************************************************)
getLatestData(symbol, market, type) == latestData[getStreamKey(symbol, market)][type]

isStreamActive(symbol, market, type) ==
  LET c == clients[ClientKey(getStreamKey(symbol, market), type)]
  IN  IF c # 0 THEN isActive(client[c]) ELSE FALSE

\* isStreamActive without a type
isAnyStreamActive(symbol, market) ==
  \E k \in KeysWithPrefix(getStreamKey(symbol, market)) :
    clients[k] # 0 /\ isActive(client[clients[k]])

\* a loop of startStream that skips nothing
SkipRegistered_never(key, todo) == todo

\* the kinds of todo from the first one that has no client yet: the loop of
\* startStream skips the registered ones
RECURSIVE SkipRegistered(_, _)
SkipRegistered(key, todo) ==
  IF todo = <<>> THEN <<>>
  ELSE IF clients[ClientKey(key, Head(todo))] # 0 THEN SkipRegistered(key, Tail(todo))
  ELSE todo

startHeartbeatMonitoring ==
  IF heartbeatInterval
  THEN UNCHANGED <<heartbeatInterval, isRunning>>
  ELSE heartbeatInterval' = TRUE /\ isRunning' = TRUE

stopHeartbeatMonitoring ==
  /\ heartbeatInterval' = FALSE
  /\ isRunning' = FALSE

\* the loop of startStream from the kinds `todo` on, until it suspends at
\* `await client.connect(type)` or ends; clientSeq is the client objects as
\* the step has left them so far, done the call that is being resumed,
\* maxClients the bound on the clients constructed
StartLoop(call, todo, clientSeq, done, maxClients) ==
  LET rest == SkipRegistered(call.key, todo)
      skipped == {clients[ClientKey(call.key, todo[i])] : i \in 1..(Len(todo) - Len(rest))}
  IN  IF rest = <<>>
      THEN /\ client' = clientSeq
           /\ calls' = calls \ done
           /\ IF ~isRunning THEN startHeartbeatMonitoring
                            ELSE UNCHANGED <<heartbeatInterval, isRunning>>
           /\ event' = [NoEvent EXCEPT !.skipped = skipped]
           /\ UNCHANGED <<clients, timerConnects>>
      ELSE LET c == Len(clientSeq) + 1
               type == Head(rest)
           IN  /\ Len(clientSeq) < maxClients
               /\ client' = Append(clientSeq, NewClient(call.key, type, call.options, call.cb))
               /\ clients' = [clients EXCEPT ![ClientKey(call.key, type)] = c]
               /\ timerConnects' = Append(timerConnects, 0)
               /\ calls' = (calls \ done) \cup {[call EXCEPT !.todo = Tail(rest), !.awaiting = c]}
               /\ event' = [Ev("none", {c}, {"connect"}) EXCEPT !.skipped = skipped]
               /\ UNCHANGED <<heartbeatInterval, isRunning>>

\* startStream(options, onData, onError) up to its first suspension
StartStream(inst, types, options, cb, maxClients) ==
  LET call == [ key |-> getStreamKey(inst.symbol, inst.market), options |-> options,
                cb |-> cb, todo |-> <<>>, awaiting |-> 0 ]
  IN  /\ StartLoop(call, IF types.given THEN types.list ELSE <<"quote">>, client, {},
                   maxClients)
      /\ UNCHANGED <<latestData, transport, now, ticks, received, storeVars>>

\* the token arrives for the connect() a startStream call awaits: the
\* transport is created and the call goes on with its next kinds
StartConnectResolved(call, maxClients, maxTransports) ==
  LET c == call.awaiting
  IN  /\ Len(transport) < maxTransports
      /\ transport' = Append(transport, NewTransport(c))
      /\ StartLoop(call, call.todo, [client EXCEPT ![c] = ConnectOpen(@)], {call},
                   maxClients)
      /\ UNCHANGED <<latestData, now, ticks, received, storeVars>>

\* a startStream that leaves the client of the failed connect() registered
StartConnectRejected_keepsKey(call) ==
  LET c == call.awaiting
  IN  /\ calls' = calls \ {call}
      /\ event' = Ev("onError", {c}, {"thrown"})
      /\ UNCHANGED <<clients, latestData, heartbeatInterval, isRunning, client, transport,
                     timerConnects, now, ticks, received, storeVars>>

\* getUtToken rejects for the connect() a startStream call awaits: connect
\* reports to onError and throws, startStream deletes the key and throws
StartConnectRejected(call) ==
  LET c == call.awaiting
  IN  /\ clients' = [clients EXCEPT ![ClientKey(call.key, client[c].type)] = 0]
      /\ calls' = calls \ {call}
      /\ event' = Ev("onError", {c}, {"thrown"})
      /\ UNCHANGED <<latestData, heartbeatInterval, isRunning, client, transport,
                     timerConnects, now, ticks, received, storeVars>>

\* the token arrives for a connect() made by a reconnect timer
TimerConnectResolved(c, maxTransports) ==
  /\ timerConnects[c] > 0
  /\ Len(transport) < maxTransports
  /\ transport' = Append(transport, NewTransport(c))
  /\ client' = [client EXCEPT ![c] = ConnectOpen(@)]
  /\ timerConnects' = [timerConnects EXCEPT ![c] = @ - 1]
  /\ event' = NoEvent
  /\ UNCHANGED <<clients, latestData, heartbeatInterval, isRunning, calls, now, ticks, received, storeVars>>

\* getUtToken rejects for a connect() made by a reconnect timer: connect
\* reports to onError and throws, the timer callback logs the rejection
TimerConnectRejected(c) ==
  /\ timerConnects[c] > 0
  /\ timerConnects' = [timerConnects EXCEPT ![c] = @ - 1]
  /\ event' = Ev("onError", {c}, {})
  /\ UNCHANGED <<clients, latestData, heartbeatInterval, isRunning, client, transport,
                 calls, now, ticks, received, storeVars>>

\* eventSource.onopen of transport t
TransportOpen(t) ==
  LET c == transport[t].owner
  IN  /\ transport[t].readyState = "connecting"
      /\ transport' = [transport EXCEPT ![t].readyState = "open"]
      /\ client' = [client EXCEPT ![c] = [OnOpen(@) EXCEPT !.failures = 0]]
      /\ event' = NoEvent
      /\ UNCHANGED <<clients, latestData, heartbeatInterval, isRunning, calls,
                     timerConnects, now, ticks, received, storeVars>>

\* cacheData(key, type, data)
cacheData(key, type, data) == [latestData EXCEPT ![key][type] = data]

\* the payload SSEClient's onmessage hands to this.onMessage, Null when it
\* hands over nothing (unparsable text, heartbeat)
ClientPayload(type, text) ==
  IF type = "news" THEN text
  ELSE LET rawResponse == parseSSEResponse(text)
       IN  IF "t" \in DOMAIN rawResponse /\ ~Truthy(rawResponse) THEN Null
           ELSE IF isHeartbeat(rawResponse) THEN Null
           ELSE rawResponse

\* a message handler that forwards the payload as it is
HandlerValue_forwardsRaw(cl, rawData) == rawData

\* a message handler that appends the decoded list to the cached one
HandlerValue_appends(cl, rawData) ==
  LET parsedData ==
        parseMessage(rawData, cl.type,
                     [symbol |-> cl.key.symbol, market |-> cl.key.market], now)
      cachedData == getLatestData(cl.key.symbol, cl.key.market, cl.type)
  IN  IF ~isValidDataType(rawData, cl.type) THEN Null
      ELSE IF parsedData \in {Null, Thrown} THEN parsedData
      ELSE IF cl.type \in {"trend", "detail"} /\ cachedData # Undefined
      THEN List(cachedData.items \o parsedData.items)
      ELSE parsedData

\* a message handler that merges the cached snapshot into the new frame
HandlerValue_mergesBackwards(cl, rawData) ==
  LET parsedData ==
        parseMessage(rawData, cl.type,
                     [symbol |-> cl.key.symbol, market |-> cl.key.market], now)
      cachedData == getLatestData(cl.key.symbol, cl.key.market, cl.type)
  IN  IF ~isValidDataType(rawData, cl.type) THEN Null
      ELSE IF parsedData \in {Null, Thrown} THEN parsedData
      ELSE IF cl.type = "quote" /\ cachedData # Undefined
      THEN mergeQuoteData(parsedData, cachedData)
      ELSE parsedData

\* the value the message handler of startStream caches and forwards for a
\* payload, Null when it drops the payload, Thrown when the decoder raises
HandlerValue(cl, rawData) ==
  IF ~isValidDataType(rawData, cl.type) THEN Null
  ELSE LET parsedData ==
             parseMessage(rawData, cl.type,
                          [symbol |-> cl.key.symbol, market |-> cl.key.market], now)
       IN  IF parsedData \in {Null, Thrown} THEN parsedData
           ELSE IF cl.type = "quote"
           THEN LET cachedData == getLatestData(cl.key.symbol, cl.key.market, cl.type)
                IN  IF cachedData # Undefined
                    THEN mergeQuoteData(cachedData, parsedData)
                    ELSE parsedData
           ELSE parsedData

\* an onmessage whose handler invokes onData before it writes the cache
OnMessage_callsBeforeCaching(t, text) ==
  LET c == transport[t].owner
      cl == client[c]
      payload == ClientPayload(cl.type, text)
      value == IF payload = Null THEN Null ELSE HandlerValue(cl, payload)
  IN  /\ transport[t].readyState = "open"
      /\ client' = [client EXCEPT ![c].lastHeartbeat = now]
      /\ IF value = Null
         THEN /\ latestData' = latestData
              /\ event' = NoEvent
         ELSE IF value = Thrown
         THEN /\ latestData' = latestData
              /\ event' = Ev("onError", {c}, {"frame"})
         ELSE /\ event' = [Ev("onData", {c}, {}) EXCEPT
                             !.data = value, !.seen = latestData[cl.key][cl.type]]
              /\ latestData' = cacheData(cl.key, cl.type, value)
      /\ UNCHANGED <<clients, heartbeatInterval, isRunning, transport, calls,
                     timerConnects, now, ticks>>

\* eventSource.onmessage of transport t with event.data = text; the handler
\* writes the cache and then invokes onData
OnMessage(t, text) ==
  LET c == transport[t].owner
      cl == client[c]
      payload == ClientPayload(cl.type, text)
      value == IF payload = Null THEN Null ELSE HandlerValue(cl, payload)
      written == cacheData(cl.key, cl.type, value)
  IN  /\ transport[t].readyState = "open"
      /\ client' = [client EXCEPT ![c].lastHeartbeat = now]
      /\ IF value = Null
         THEN /\ latestData' = latestData
              /\ event' = NoEvent
         ELSE IF value = Thrown
         THEN /\ latestData' = latestData
              /\ event' = Ev("onError", {c}, {"frame"})
         ELSE /\ latestData' = written
              /\ event' = [Ev("onData", {c}, {}) EXCEPT
                             !.data = value, !.seen = written[cl.key][cl.type]]
      /\ UNCHANGED <<clients, heartbeatInterval, isRunning, transport, calls,
                     timerConnects, now, ticks>>

TransportMessage(t, text) == OnMessage(t, text) /\ UNCHANGED <<received, storeVars>>

\* OnMessage, with the text kept for the statements about the merge
RecordedMessage(t, text) ==
  OnMessage(t, text) /\ received' = Append(received, text) /\ UNCHANGED storeVars

\* OnMessage, with the last text delivered and its transport kept
LastMessage(t, text) ==
  /\ OnMessage(t, text)
  /\ received' = << [text |-> text, transport |-> t] >>
  /\ UNCHANGED storeVars

\* eventSource.onerror of transport t; the EventSource goes on retrying by
\* itself (fatal = FALSE) or gives up (fatal = TRUE)
TransportError(t, fatal) ==
  LET c == transport[t].owner
      after == OnError(client[c])
  IN  /\ transport[t].readyState \in {"connecting", "open"}
      /\ transport' = [transport EXCEPT
                         ![t].readyState = IF fatal THEN "closed" ELSE "connecting"]
      /\ client' = [client EXCEPT ![c] =
                      [after EXCEPT !.failures =
                         Min(@ + 1, Min(FailuresCounted, MaxAttempts(after)))]]
      /\ event' = Ev("onError", {c},
                     IF after.reconnectTimer # 0 /\ client[c].reconnectTimer = 0
                       THEN {"error", "armed"} ELSE {"error"})
      /\ UNCHANGED <<clients, latestData, heartbeatInterval, isRunning, calls,
                     timerConnects, now, ticks, received, storeVars>>

\* the callback of the reconnect timer of client c
ReconnectTimerFire(c) ==
  LET cl == [client[c] EXCEPT !.reconnectTimer = 0, !.timers = @ - 1]
      connects == ~cl.isClosing /\ ConnectGuard(cl)
  IN  /\ client[c].timers > 0
      /\ connects => timerConnects[c] < MaxTimerConnects
      /\ client' = [client EXCEPT ![c] = cl]
      /\ timerConnects' = [timerConnects EXCEPT ![c] = IF connects THEN @ + 1 ELSE @]
      /\ event' = IF connects THEN Ev("none", {c}, {"connect"}) ELSE NoEvent
      /\ UNCHANGED <<clients, latestData, heartbeatInterval, isRunning, transport,
                     calls, now, ticks, received, storeVars>>

\* the clients registered in the manager
Registered == {clients[k] : k \in ClientKeys} \ {0}

\* the callback of the heartbeat interval: checkHeartbeat on every client
HeartbeatScan ==
  LET timedOut == {c \in Registered : ~checkHeartbeat(client[c])}
  IN  /\ heartbeatInterval
      /\ client' = [c \in ClientIds |->
                      IF c \in Registered THEN AfterCheckHeartbeat(client[c]) ELSE client[c]]
      /\ event' = IF timedOut # {} THEN Ev("none", timedOut, {"timedOut"}) ELSE NoEvent
      /\ UNCHANGED <<clients, latestData, heartbeatInterval, isRunning, transport, calls,
                     timerConnects, now, ticks, received, storeVars>>

\* close() on every client of cs: the clients and the transports afterwards
CloseAll(cs) ==
  /\ client' = [c \in ClientIds |-> IF c \in cs THEN close(client[c]) ELSE client[c]]
  /\ transport' = [t \in TransportIds |->
                     IF \E c \in cs : client[c].eventSource = t
                     THEN [transport[t] EXCEPT !.readyState = "closed"]
                     ELSE transport[t]]

\* the event of a step that closed the clients cs
Closed(cs) ==
  IF \E c \in cs : client[c].reconnectTimer # 0
  THEN Ev("none", cs, {"closed", "cancelled"})
  ELSE Ev("none", cs, {"closed"})

\* a stopStream that closes the connections of every instrument
StopStream_everyInstrument(inst) ==
  LET key == getStreamKey(inst.symbol, inst.market)
      keysToRemove == {k \in ClientKeys : clients[k] # 0}
      cs == {clients[k] : k \in keysToRemove}
  IN  /\ CloseAll(cs)
      /\ clients' = [k \in ClientKeys |-> IF k \in keysToRemove THEN 0 ELSE clients[k]]
      /\ latestData' = [latestData EXCEPT ![key] = [k \in Kinds |-> Undefined]]
      /\ IF \A k \in ClientKeys : clients'[k] = 0
         THEN stopHeartbeatMonitoring
         ELSE UNCHANGED <<heartbeatInterval, isRunning>>
      /\ event' = Closed(cs)
      /\ UNCHANGED <<calls, timerConnects, now, ticks, received, storeVars>>

\* a stopStream that keeps the cached snapshots
StopStream_keepsSnapshots(inst) ==
  LET key == getStreamKey(inst.symbol, inst.market)
      keysToRemove == {k \in KeysWithPrefix(key) : clients[k] # 0}
      cs == {clients[k] : k \in keysToRemove}
  IN  /\ CloseAll(cs)
      /\ clients' = [k \in ClientKeys |-> IF k \in keysToRemove THEN 0 ELSE clients[k]]
      /\ IF \A k \in ClientKeys : clients'[k] = 0
         THEN stopHeartbeatMonitoring
         ELSE UNCHANGED <<heartbeatInterval, isRunning>>
      /\ event' = Closed(cs)
      /\ UNCHANGED <<latestData, calls, timerConnects, now, ticks, received, storeVars>>

\* stopStream(symbol, market)
stopStream(inst) ==
  LET key == getStreamKey(inst.symbol, inst.market)
      keysToRemove == {k \in KeysWithPrefix(key) : clients[k] # 0}
      cs == {clients[k] : k \in keysToRemove}
  IN  /\ CloseAll(cs)
      /\ clients' = [k \in ClientKeys |-> IF k \in keysToRemove THEN 0 ELSE clients[k]]
      /\ latestData' = [latestData EXCEPT ![key] = [k \in Kinds |-> Undefined]]
      /\ IF \A k \in ClientKeys : clients'[k] = 0
         THEN stopHeartbeatMonitoring
         ELSE UNCHANGED <<heartbeatInterval, isRunning>>
      /\ event' = Closed(cs)
      /\ UNCHANGED <<calls, timerConnects, now, ticks, storeVars>>

StopStream(inst) == stopStream(inst) /\ UNCHANGED received

\* stopStream, with the texts kept for the statements about the merge
\* forgotten: the cache they led to is dropped
RecordedStop(inst) == stopStream(inst) /\ received' = <<>>

\* a stopAll that leaves the heartbeat interval running
StopAll_keepsInterval ==
  /\ CloseAll(Registered)
  /\ clients' = [k \in ClientKeys |-> 0]
  /\ latestData' = [i \in Instruments |-> [k \in Kinds |-> Undefined]]
  /\ event' = Closed(Registered)
  /\ UNCHANGED <<heartbeatInterval, isRunning, calls, timerConnects, now, ticks, received, storeVars>>

StopAll ==
  /\ CloseAll(Registered)
  /\ clients' = [k \in ClientKeys |-> 0]
  /\ latestData' = [i \in Instruments |-> [k \in Kinds |-> Undefined]]
  /\ stopHeartbeatMonitoring
  /\ event' = Closed(Registered)
  /\ UNCHANGED <<calls, timerConnects, now, ticks, received, storeVars>>

\* time passes
Tick ==
  /\ ticks < MaxTicks
  /\ ticks' = ticks + 1
  /\ now' = now + TickMs
  /\ event' = NoEvent
  /\ UNCHANGED <<clients, latestData, heartbeatInterval, isRunning, client, transport,
                 calls, timerConnects, received, storeVars>>

\* time passes: one period of the heartbeat interval, shorter than the
\* default heartbeat timeout
ShortTick ==
  /\ ticks < MaxTicks
  /\ ticks' = ticks + 1
  /\ now' = now + HEARTBEAT_CHECK_INTERVAL
  /\ event' = NoEvent
  /\ UNCHANGED <<clients, latestData, heartbeatInterval, isRunning, client, transport,
                 calls, timerConnects, received, storeVars>>
(***************************************************************************)
(* utils.ts: markets and symbols.  A string is the sequence of its         *)
(* characters, so that the regular expressions and parseInt are computed.  *)
(* A market is Num(code); null is Null.                                    *)
(***************************************************************************)
Shenzhen == 0
Shanghai == 1
US == 105
US_ETF == 107
HongKong == 116

VALID_MARKETS == {Shenzhen, Shanghai, US, US_ETF, HongKong}

Digits == {"0", "1", "2", "3", "4", "5", "6", "7", "8", "9"}
UpperLetters ==
  {"A", "B", "C", "D", "E", "F", "G", "H", "I", "J", "K", "L", "M", "N", "O", "P", "Q",
   "R", "S", "T", "U", "V", "W", "X", "Y", "Z"}

DigitValue(ch) == CHOOSE d \in 0..9 : ToString(d) = ch

AllIn(chars, set) == \A i \in 1..Len(chars) : chars[i] \in set

\* parseInt(text, 10) of text without leading blanks or sign: the number its
\* leading digits write, NaN (Undefined) when it starts with no digit
RECURSIVE DigitsValue(_, _)
DigitsValue(chars, acc) ==
  IF chars = <<>> \/ Head(chars) \notin Digits THEN acc
  ELSE DigitsValue(Tail(chars), 10 * acc + DigitValue(Head(chars)))

parseInt10(chars) ==
  IF chars = <<>> \/ Head(chars) \notin Digits THEN Undefined
  ELSE Num(DigitsValue(chars, 0))

parseMarket(marketStr) ==
  LET market == parseInt10(marketStr)
  IN  IF market = Undefined THEN Null
      ELSE IF market.n \in VALID_MARKETS THEN market ELSE Null

detectMarketFromSymbol(symbol) ==
  IF ~(Len(symbol) = 6 /\ AllIn(symbol, Digits)) THEN Null
  ELSE LET prefix == SubSeq(symbol, 1, 3)
       IN  IF prefix \in {<<"3", "0", "0">>, <<"3", "0", "1">>} THEN Num(Shenzhen)
           ELSE IF prefix \in {<<"0", "0", "0">>, <<"0", "0", "1">>, <<"0", "0", "2">>,
                               <<"0", "0", "3">>}
           THEN Num(Shenzhen)
           ELSE IF prefix = <<"6", "8", "8">> THEN Num(Shanghai)
           ELSE IF prefix \in {<<"6", "0", "0">>, <<"6", "0", "1">>, <<"6", "0", "3">>,
                               <<"6", "0", "5">>}
           THEN Num(Shanghai)
           ELSE Null

validateStockSymbol(symbol, market) ==
  CASE market.n \in {Shenzhen, Shanghai} -> Len(symbol) = 6 /\ AllIn(symbol, Digits)
    [] market.n = HongKong ->
         Len(symbol) = 5 /\ symbol[1] = "0" /\ AllIn(symbol, Digits)
    [] market.n \in {US, US_ETF} -> Len(symbol) \in 1..5 /\ AllIn(symbol, UpperLetters)
    [] OTHER -> FALSE

\* the outcome of a call: a value returned or an error thrown
Returned(value) == [ok |-> TRUE, value |-> value]
Threw(error) == [ok |-> FALSE, error |-> error]

\* marketStr is [given |-> FALSE] when the argument is left out
validateMarketAndSymbol(symbol, marketStr) ==
  LET parsed == IF marketStr.given /\ marketStr.chars # <<>>
                THEN parseMarket(marketStr.chars) ELSE Null
      detected == detectMarketFromSymbol(symbol)
      market == IF ~Truthy(parsed) THEN detected ELSE parsed
  IN  IF ~Truthy(parsed) /\ Truthy(detected)
      THEN IF ~validateStockSymbol(symbol, detected)
           THEN Threw("Invalid stock symbol format")
           ELSE Returned(detected)
      ELSE IF ~Truthy(market) THEN Threw("Invalid market code")
      ELSE IF ~validateStockSymbol(symbol, market)
      THEN Threw("Invalid stock symbol format")
      ELSE Returned(market)

\* the symbols and market arguments of MarketSpec
SymbolInputs ==
  { <<"0", "0", "0", "0", "0", "1">>, <<"3", "0", "0", "7", "5", "0">>,
    <<"6", "0", "0", "0", "0", "0">>, <<"6", "8", "8", "0", "0", "5">>,
    <<"0", "0", "4", "0", "0", "1">>, <<"9", "0", "0", "9", "0", "1">>,
    <<"0", "0", "7", "0", "0">>, <<"1", "2", "3", "4", "5">>,
    <<"A", "A", "P", "L">>, <<"S", "P", "Y">>,
    <<"I", "N", "V", "A", "L", "I", "D">>, <<>> }

NotGiven == [given |-> FALSE, chars |-> <<>>]
Given(chars) == [given |-> TRUE, chars |-> chars]
MarketInputs ==
  { NotGiven, Given(<<>>), Given(<<"0">>), Given(<<"1">>), Given(<<"1", "0", "5">>),
    Given(<<"1", "0", "7">>), Given(<<"1", "1", "6">>), Given(<<"2">>),
    Given(<<"a", "b", "c">>), Given(<<"1", "x">>) }

NoCall == [op |-> "none"]

\* the cache files told apart: symbol and market, timeframe, adjustment type
CacheSymbols == { [symbol |-> "688005", market |-> Shanghai],
                  [symbol |-> "000001", market |-> Shenzhen] }
Timeframes == {"daily", "weekly"}
AdjustmentTypes == {0, 1}

\* getCacheFilePath(symbol, market, timeframe, fqt)
getCacheFilePath(symbol, market, timeframe, fqt) ==
  [symbol |-> symbol, market |-> market, timeframe |-> timeframe, fqt |-> fqt]

CacheKeys ==
  { getCacheFilePath(s.symbol, s.market, timeframe, fqt) :
      s \in CacheSymbols, timeframe \in Timeframes, fqt \in AdjustmentTypes }

\* existsSync(filePath) is false
NoFile == [exists |-> FALSE]

StoreInit ==
  /\ watchlistFile = <<>>
  /\ cacheFiles = [k \in CacheKeys |-> NoFile]
  /\ ret = NoCall

\* a call validateMarketAndSymbol(symbol, marketStr)
ValidateCall(symbol, marketStr) ==
  /\ ret' = [ op |-> "validateMarketAndSymbol", symbol |-> symbol, marketStr |-> marketStr,
              outcome |-> validateMarketAndSymbol(symbol, marketStr) ]
  /\ UNCHANGED <<sysVars, watchlistFile, cacheFiles>>

(***************************************************************************)
(* storage/watchlist.ts.  The file holds the sequence of the entries;      *)
(* no file reads as no entries.                                            *)
(***************************************************************************)
\* loadWatchlist(): the entries that have a symbol and a valid market
loadWatchlist ==
  SelectSeq(watchlistFile,
            LAMBDA entry : entry.symbol # <<>> /\ entry.market.n \in VALID_MARKETS)

\* the index of the first entry for the symbol, 0 when there is none
FindIndex(entries, symbol) ==
  IF \E i \in 1..Len(entries) : entries[i].symbol = symbol
  THEN CHOOSE i \in 1..Len(entries) :
         /\ entries[i].symbol = symbol
         /\ \A j \in 1..(i - 1) : entries[j].symbol # symbol
  ELSE 0

\* new Date().toISOString().split('T')[0]
Today == Str("2025-01-02")

\* an addToWatchlist that does not look for the symbol among the entries
AddCall_noLookup(symbol, market, name) ==
  /\ watchlistFile' =
       IF validateStockSymbol(symbol, market)
       THEN Append(loadWatchlist, [symbol |-> symbol, market |-> market, name |-> name,
                                   addedDate |-> Today])
       ELSE watchlistFile
  /\ ret' = [ op |-> "addToWatchlist", symbol |-> symbol, market |-> market,
              outcome |-> IF validateStockSymbol(symbol, market)
                          THEN Returned(Undefined)
                          ELSE Threw("Invalid stock symbol format") ]
  /\ UNCHANGED <<sysVars, cacheFiles>>

\* addToWatchlist(symbol, market, name)
AddCall(symbol, market, name) ==
  LET entries == loadWatchlist
      outcome ==
        IF ~validateStockSymbol(symbol, market) THEN Threw("Invalid stock symbol format")
        ELSE IF FindIndex(entries, symbol) # 0 THEN Threw("already in the watchlist")
        ELSE Returned(Undefined)
  IN  /\ watchlistFile' =
           IF outcome.ok
           THEN Append(entries, [symbol |-> symbol, market |-> market, name |-> name,
                                 addedDate |-> Today])
           ELSE watchlistFile
      /\ ret' = [ op |-> "addToWatchlist", symbol |-> symbol, market |-> market,
                  outcome |-> outcome ]
      /\ UNCHANGED <<sysVars, cacheFiles>>

\* removeFromWatchlist(symbol)
RemoveCall(symbol) ==
  LET entries == loadWatchlist
      filtered == SelectSeq(entries, LAMBDA entry : entry.symbol # symbol)
      found == Len(filtered) # Len(entries)
  IN  /\ watchlistFile' = IF found THEN filtered ELSE watchlistFile
      /\ ret' = [ op |-> "removeFromWatchlist", symbol |-> symbol,
                  outcome |-> Returned(found) ]
      /\ UNCHANGED <<sysVars, cacheFiles>>

\* { ...entry, ...updates }: updates is a record of some of market, name
\* and addedDate
SpreadEntry(entry, updates) ==
  [f \in DOMAIN entry |-> IF f \in DOMAIN updates THEN updates[f] ELSE entry[f]]

\* updateWatchlistEntry(symbol, updates)
UpdateCall(symbol, updates) ==
  LET entries == loadWatchlist
      index == FindIndex(entries, symbol)
  IN  /\ watchlistFile' =
           IF index = 0 THEN watchlistFile
           ELSE [entries EXCEPT ![index] = SpreadEntry(entries[index], updates)]
      /\ ret' = [ op |-> "updateWatchlistEntry", symbol |-> symbol,
                  outcome |-> Returned(index # 0) ]
      /\ UNCHANGED <<sysVars, cacheFiles>>

\* the arguments of WatchSpec
WatchSymbols ==
  { <<"0", "0", "0", "0", "0", "1">>, <<"6", "0", "0", "0", "0", "0">>,
    <<"A", "A", "P", "L">>, <<"I", "N", "V", "A", "L", "I", "D">> }
WatchMarkets == {Num(Shenzhen), Num(Shanghai), Num(US)}
WatchNames == {Undefined, Str("name")}
WatchUpdates ==
  { [name |-> Str("renamed")], [market |-> Num(Shanghai)],
    [market |-> Num(US), name |-> Str("renamed")] }


(***************************************************************************)
(* The K-line cache: one file per symbol, market, timeframe and adjustment *)
(* type.  A record is a date and a close; dates are day numbers, ordered   *)
(* as localeCompare orders the YYYY-MM-DD strings they stand for.          *)
(***************************************************************************)
MaxDate == 3
MaxNewData == 2
Dates == 1..MaxDate
Closes == {10, 20}
KlineRecords == [date : Dates, close : Closes]

\* a.date.localeCompare(b.date) <= 0
DateNotAfter(a, b) == a.date <= b.date

\* one step of data.sort((a, b) => a.date.localeCompare(b.date)): the sort is
\* stable, a record goes behind the records of its own date already placed
RECURSIVE InsertByDate(_, _)
InsertByDate(sorted, record) ==
  IF sorted = <<>> THEN <<record>>
  ELSE IF DateNotAfter(sorted[Len(sorted)], record) THEN Append(sorted, record)
  ELSE Append(InsertByDate(SubSeq(sorted, 1, Len(sorted) - 1), record),
              sorted[Len(sorted)])

\* data.sort((a, b) => a.date.localeCompare(b.date))
RECURSIVE SortByDate(_)
SortByDate(data) ==
  IF data = <<>> THEN <<>>
  ELSE InsertByDate(SortByDate(SubSeq(data, 1, Len(data) - 1)), data[Len(data)])

\* dateMap.set(record.date, record): a date already in the map keeps its
\* place and takes the new record, a new date goes to the end
MapSet(dateMap, record) ==
  IF \E i \in 1..Len(dateMap) : dateMap[i].date = record.date
  THEN [i \in 1..Len(dateMap) |->
          IF dateMap[i].date = record.date THEN record ELSE dateMap[i]]
  ELSE Append(dateMap, record)

\* records.forEach(record => dateMap.set(record.date, record))
RECURSIVE MapSetAll(_, _)
MapSetAll(dateMap, records) ==
  IF records = <<>> THEN dateMap
  ELSE MapSetAll(MapSet(dateMap, Head(records)), Tail(records))

\* getCacheEntry(...): null when the file does not exist
getCacheEntry(filePath) ==
  IF cacheFiles[filePath].exists THEN cacheFiles[filePath] ELSE Null

\* the data setCachedData writes
MergedData(filePath, newData, merge) ==
  LET existingEntry == IF merge /\ cacheFiles[filePath].exists
                       THEN getCacheEntry(filePath) ELSE Null
      data == IF existingEntry # Null THEN existingEntry.data ELSE <<>>
  IN  SortByDate(IF merge /\ Len(data) > 0
                 THEN MapSetAll(MapSetAll(<<>>, data), newData)
                 ELSE newData)

\* setCachedData(symbol, market, timeframe, newData, merge, fqt)
SetCall(filePath, newData, merge) ==
  /\ cacheFiles' = [cacheFiles EXCEPT ![filePath] =
                      [ exists |-> TRUE,
                        data |-> MergedData(filePath, newData, merge),
                        metadata |-> filePath ]]
  /\ ret' = [ op |-> "setCachedData", filePath |-> filePath,
              newData |-> newData, merge |-> merge ]
  /\ UNCHANGED <<sysVars, watchlistFile>>

\* the files of the cache directory
ExistingFiles == { k \in CacheKeys : cacheFiles[k].exists }

\* clearCache(symbol, market, timeframe, fqt): args.given names the
\* parameters the call passes, args.filePath carries their values
ClearCall(args) ==
  LET clearAll == \/ "symbol" \notin args.given
                  \/ "market" \notin args.given
                  \/ "timeframe" \notin args.given
                  \/ "fqt" \notin args.given
      filePath == args.filePath
  IN  /\ cacheFiles' =
           IF clearAll THEN [k \in CacheKeys |-> NoFile]
           ELSE [cacheFiles EXCEPT ![filePath] = NoFile]
      /\ ret' = [ op |-> "clearCache", args |-> args,
                  outcome |-> Returned(
                    IF clearAll THEN Cardinality(ExistingFiles)
                    ELSE IF cacheFiles[filePath].exists THEN 1 ELSE 0) ]
      /\ UNCHANGED <<sysVars, watchlistFile>>

\* the arguments of MergeSpec: lists of up to MaxNewData records, written to
\* one file
MergeFile == getCacheFilePath("688005", Shanghai, "daily", 1)
NewDataInputs ==
  UNION { [1..n -> KlineRecords] : n \in 0..MaxNewData }

\* the arguments of ClearSpec: every file written with the same record, and
\* clearCache called with all four parameters, with the adjustment type left
\* out, with the symbol alone, and with none
ClearData == <<[date |-> 1, close |-> 10]>>
ClearGiven ==
  { {"symbol", "market", "timeframe", "fqt"}, {"symbol", "market", "timeframe"},
    {"symbol"}, {} }
ClearArgs == [given : ClearGiven, filePath : CacheKeys]
(***************************************************************************)
(* Specifications.                                                         *)
(*   Spec:     the manager with two instruments and concurrent startStream *)
(*             calls; the clock stands still.                              *)
(*   ConnSpec: one instrument and one kind, the whole life of its          *)
(*             connection, with the default and with configured options;   *)
(*             the clock advances.                                         *)
(*   FairConnSpec: ConnSpec where the timers fire and the token requests   *)
(*             end.                                                        *)
(*   QuoteSpec: one quote connection that delivers a first quote frame and *)
(*             then partial quote frames.                                  *)
(*   FrameSpec: one instrument, connections of every kind, started and     *)
(*             stopped, that deliver well-formed and malformed frames; the *)
(*             clock stands still.                                         *)
(*   OptionSpec: one key, every option configured, as 0 and as another     *)
(*             value; the clock advances by the heartbeat period.          *)
(*   NewsSpec: one news connection, started and stopped, that delivers     *)
(*             news items of well-formed and malformed type and seq.       *)
(*   RestartSpec: quote connections of one instrument, started, stopped    *)
(*             and started again by two callers, that deliver quote        *)
(*             frames and heartbeats.                                      *)
(*   PairSpec: two instruments, one quote connection each, started,       *)
(*             failed, reconnected and stopped independently.              *)
(*   MarketSpec: calls of validateMarketAndSymbol with symbols of every    *)
(*             format and market arguments given, left out and invalid.    *)
(*   WatchSpec: calls that add, remove and update watchlist entries.       *)
(*   MergeSpec: calls of setCachedData on one cache file, with and without *)
(*             merge, with new records in any order and of repeated dates. *)
(*   ClearSpec: cache files of two symbols, two timeframes and two         *)
(*             adjustment types, written and cleared by clearCache with    *)
(*             all, some and none of its parameters.                       *)
(***************************************************************************)
vars == <<sysVars, storeVars>>

Init == SysInit /\ StoreInit

Next ==
  \/ \E inst \in Instruments, types \in TypeLists, options \in OptionSets, cb \in Callbacks :
       StartStream(inst, types, options, cb, MaxClients)
  \/ \E call \in calls : StartConnectResolved(call, MaxClients, MaxTransports)
  \/ \E call \in calls : StartConnectRejected(call)
  \/ \E c \in ClientIds : TimerConnectResolved(c, MaxTransports)
  \/ \E c \in ClientIds : TimerConnectRejected(c)
  \/ \E t \in TransportIds : TransportOpen(t)
  \/ \E t \in TransportIds, text \in WireFrames : TransportMessage(t, text)
  \/ \E t \in TransportIds, fatal \in BOOLEAN : TransportError(t, fatal)
  \/ \E c \in ClientIds : ReconnectTimerFire(c)
  \/ HeartbeatScan
  \/ \E inst \in Instruments : StopStream(inst)
  \/ StopAll

Spec == Init /\ [][Next]_vars

ConnNext ==
  \/ \E options \in ConnOptionSets, cb \in Callbacks :
       StartStream(InstrumentX, NoTypes, options, cb, ConnMaxClients)
  \/ \E call \in calls : StartConnectResolved(call, ConnMaxClients, ConnMaxTransports)
  \/ \E call \in calls : StartConnectRejected(call)
  \/ \E c \in ClientIds : TimerConnectResolved(c, ConnMaxTransports)
  \/ \E c \in ClientIds : TimerConnectRejected(c)
  \/ \E t \in TransportIds : TransportOpen(t)
  \/ \E t \in TransportIds, text \in WireFrames : TransportMessage(t, text)
  \/ \E t \in TransportIds, fatal \in BOOLEAN : TransportError(t, fatal)
  \/ \E c \in ClientIds : ReconnectTimerFire(c)
  \/ HeartbeatScan
  \/ StopStream(InstrumentX)
  \/ StopAll
  \/ Tick

ConnSpec == Init /\ [][ConnNext]_vars

\* the token request of a connect() ends, with a token or without
TokenRequestEnds ==
  \/ \E call \in calls :
       \/ StartConnectResolved(call, ConnMaxClients, ConnMaxTransports)
       \/ StartConnectRejected(call)
  \/ \E c \in ClientIds :
       \/ TimerConnectResolved(c, ConnMaxTransports)
       \/ TimerConnectRejected(c)

\* setInterval and setTimeout callbacks run when due and getUtToken ends (it
\* has its own timeouts); nothing obliges the server to send, the transport
\* to fail, the caller to call or the clock to pass a deadline
FairConnSpec ==
  /\ ConnSpec
  /\ WF_vars(HeartbeatScan)
  /\ WF_vars(\E c \in ClientIds : ReconnectTimerFire(c))
  /\ WF_vars(TokenRequestEnds)

\* startStream for the quote kind of InstrumentX, once
QuoteStart ==
  /\ client = <<>>
  /\ StartStream(InstrumentX, NoTypes, DefaultOptions, "cb1", ConnMaxClients)

\* the server sends a first quote frame and then partial frames
QuoteFrameArrives ==
  /\ Len(received) < MaxReceived
  /\ \E t \in TransportIds :
       \E text \in (IF received = <<>> THEN FirstTexts ELSE DeltaTexts) :
         RecordedMessage(t, text)

QuoteNext ==
  \/ QuoteStart
  \/ \E call \in calls : StartConnectResolved(call, ConnMaxClients, ConnMaxTransports)
  \/ \E t \in TransportIds : TransportOpen(t)
  \/ QuoteFrameArrives

QuoteSpec == Init /\ [][QuoteNext]_vars

FrameNext ==
  \/ \E types \in FrameTypeLists :
       StartStream(InstrumentX, types, OneAttemptOptions, "cb1", FrameMaxClients)
  \/ \E call \in calls : StartConnectResolved(call, FrameMaxClients, FrameMaxTransports)
  \/ \E call \in calls : StartConnectRejected(call)
  \/ \E t \in TransportIds : TransportOpen(t)
  \/ \E t \in TransportIds, text \in FrameTexts : LastMessage(t, text)
  \/ StopStream(InstrumentX)
  \/ StopAll

FrameSpec == Init /\ [][FrameNext]_vars

OptionNext ==
  \/ \E options \in ConfiguredOptionSets, cb \in Callbacks :
       StartStream(InstrumentX, NoTypes, options, cb, ConnMaxClients)
  \/ \E call \in calls : StartConnectResolved(call, ConnMaxClients, ConnMaxTransports)
  \/ \E call \in calls : StartConnectRejected(call)
  \/ \E c \in ClientIds : TimerConnectResolved(c, ConnMaxTransports)
  \/ \E c \in ClientIds : TimerConnectRejected(c)
  \/ \E t \in TransportIds : TransportOpen(t)
  \/ \E t \in TransportIds, fatal \in BOOLEAN : TransportError(t, fatal)
  \/ \E c \in ClientIds : ReconnectTimerFire(c)
  \/ HeartbeatScan
  \/ StopStream(InstrumentX)
  \/ ShortTick

OptionSpec == Init /\ [][OptionNext]_vars

NewsNext ==
  \/ \E cb \in Callbacks :
       StartStream(InstrumentX, NewsTypes, OneAttemptOptions, cb, FrameMaxClients)
  \/ \E call \in calls : StartConnectResolved(call, FrameMaxClients, FrameMaxTransports)
  \/ \E t \in TransportIds : TransportOpen(t)
  \/ \E t \in TransportIds, text \in NewsTexts : LastMessage(t, text)
  \/ StopStream(InstrumentX)

NewsSpec == Init /\ [][NewsNext]_vars

\* the server sends a quote frame, full or partial, or a heartbeat
RestartFrameArrives ==
  /\ Len(received) < MaxReceived
  /\ \E t \in TransportIds, text \in RestartTexts : RecordedMessage(t, text)

RestartNext ==
  \/ \E cb \in Callbacks :
       StartStream(InstrumentX, NoTypes, OneAttemptOptions, cb, RestartMaxClients)
  \/ \E call \in calls :
       StartConnectResolved(call, RestartMaxClients, RestartMaxTransports)
  \/ \E t \in TransportIds : TransportOpen(t)
  \/ RestartFrameArrives
  \/ RecordedStop(InstrumentX)

RestartSpec == Init /\ [][RestartNext]_vars

PairNext ==
  \/ \E inst \in Instruments :
       StartStream(inst, NoTypes, OneAttemptOptions, "cb1", MaxClients)
  \/ \E call \in calls : StartConnectResolved(call, MaxClients, MaxTransports)
  \/ \E c \in ClientIds : TimerConnectResolved(c, MaxTransports)
  \/ \E t \in TransportIds : TransportOpen(t)
  \/ \E t \in TransportIds, text \in WireFrames : TransportMessage(t, text)
  \/ \E t \in TransportIds, fatal \in BOOLEAN : TransportError(t, fatal)
  \/ \E c \in ClientIds : ReconnectTimerFire(c)
  \/ \E inst \in Instruments : StopStream(inst)

PairSpec == Init /\ [][PairNext]_vars

MarketNext ==
  \E symbol \in SymbolInputs, marketStr \in MarketInputs : ValidateCall(symbol, marketStr)

MarketSpec == Init /\ [][MarketNext]_vars

WatchNext ==
  \/ \E symbol \in WatchSymbols, market \in WatchMarkets, name \in WatchNames :
       AddCall(symbol, market, name)
  \/ \E symbol \in WatchSymbols : RemoveCall(symbol)
  \/ \E symbol \in WatchSymbols, updates \in WatchUpdates : UpdateCall(symbol, updates)

WatchSpec == Init /\ [][WatchNext]_vars

MergeNext ==
  \E newData \in NewDataInputs, merge \in BOOLEAN : SetCall(MergeFile, newData, merge)

MergeSpec == Init /\ [][MergeNext]_vars

ClearNext ==
  \/ \E filePath \in CacheKeys : SetCall(filePath, ClearData, TRUE)
  \/ \E args \in ClearArgs : ClearCall(args)

ClearSpec == Init /\ [][ClearNext]_vars

TypeOK ==
  /\ \A k \in ClientKeys : clients[k] \in 0..Len(client)
  /\ Len(client) <= MaxClients
  /\ Len(transport) <= MaxTransports
(***************************************************************************)
(* Statements about cancellation and registration.                         *)
(***************************************************************************)
\* the callback the step to the primed state invoked for client c
CallbackFor(c) == IF c \in event'.who THEN event'.cb ELSE "none"

\* the connect() calls of client c that await the token
InFlight(c) == timerConnects[c] + Cardinality({call \in calls : call.awaiting = c})

\* C1: once close() has been called on a connection, at any point of its
\* life, no step invokes onData or onError for that connection any more.
C1_NoCallbackAfterClose ==
  [][\A c \in ClientIds : client[c].isClosing => CallbackFor(c) = "none"]_vars

\* C2: every registered key holds the connection made for that key, no step
\* replaces a registered connection by another one, and a startStream that
\* finds a (instrument, kind) registered makes no connection for it, leaves
\* the registered connection with its callbacks as it is and does not throw.
C2_OnePerKind ==
  /\ [](\A k \in ClientKeys :
          clients[k] # 0 =>
            /\ ClientKey(client[clients[k]].key, client[clients[k]].type) = k
            /\ \A k2 \in ClientKeys : clients[k2] = clients[k] => k2 = k)
  /\ [][/\ \A k \in ClientKeys : clients[k] # 0 => clients'[k] \in {clients[k], 0}
        /\ \A c \in event'.skipped :
             /\ client'[c] = client[c]
             /\ "thrown" \notin event'.info
             /\ clients'[ClientKey(client[c].key, client[c].type)] = c
             /\ \A d \in (1..Len(client')) \ ClientIds :
                  ClientKey(client'[d].key, client'[d].type)
                    # ClientKey(client[c].key, client[c].type)]_vars

\* a startStream found its kind registered while another startStream for
\* the same instrument was still awaiting its connection
C2_Witness ==
  /\ event.skipped # {}
  /\ \E call \in calls, c \in event.skipped : call.key = client[c].key

\* C3: for a closed connection no reconnect timer is pending or armed, no
\* timer starts a connect, no connect() call passes the guard, and a
\* transport is opened for it only by a connect() that was already awaiting
\* its token when close() ran.
C3_ClosedIsTerminal ==
  [][\A c \in ClientIds :
       client[c].isClosing =>
         /\ client'[c].isClosing
         /\ client'[c].reconnectTimer = 0
         /\ ~("connect" \in event'.info /\ c \in event'.who)
         /\ InFlight(c)' <= InFlight(c)
         /\ \A t \in (1..Len(transport')) \ TransportIds :
              transport'[t].owner = c => InFlight(c)' < InFlight(c)]_vars

\* a transport error was handled on a closed connection that had been
\* reconnecting before
C3_Witness ==
  \E c \in ClientIds :
    /\ client[c].isClosing
    /\ client[c].reconnectAttempts > 0
    /\ "error" \in event.info
    /\ c \in event.who

\* C4: right after a stopStream that cancelled a pending reconnect timer,
\* none of the stopped connections has a timer, isStreamActive is false for
\* the instrument with every kind and without a kind, no connection of the
\* instrument is registered and getLatestData has no value for any kind.
C4_StopCancelsTimer ==
  "cancelled" \in event.info =>
    \A c \in event.who :
      LET key == client[c].key
      IN  /\ client[c].reconnectTimer = 0
          /\ ~isAnyStreamActive(key.symbol, key.market)
          /\ \A kind \in Kinds :
               /\ ~isStreamActive(key.symbol, key.market, kind)
               /\ clients[ClientKey(key, kind)] = 0
               /\ getLatestData(key.symbol, key.market, kind) = Undefined

\* a stop closed the two connections of an instrument while the reconnect
\* timer of one of them was pending
C4_Witness ==
  /\ "cancelled" \in event.info
  /\ Cardinality(event.who) = 2
  /\ \E c \in event.who : client[c].reconnectAttempts > 0

(***************************************************************************)
(* Statements about reconnection.                                          *)
(***************************************************************************)
\* C5: when the heartbeat scan finds a connection silent for longer than
\* its heartbeat timeout, a connect attempt for that connection follows,
\* unless the connection is closed or its transport opens again by itself.
C5_SilentConnectionReconnects ==
  \A c \in 1..ConnMaxClients :
    []((c \in ClientIds /\ "timedOut" \in event.info /\ c \in event.who)
         => <>(c \in ClientIds
                 /\ \/ "connect" \in event.info /\ c \in event.who
                    \/ client[c].isClosing
                    \/ client[c].isConnected))

\* C6: after maxReconnectAttempts transport failures of a connection with no
\* open in between, no step arms a reconnect timer for it, and every
\* transport failure is reported to onError.
C6_GivesUpAfterMaxFailures ==
  [][\A c \in ClientIds :
       /\ ( /\ MaxAttempts(client[c]) <= FailuresCounted
            /\ client[c].failures >= MaxAttempts(client[c])
            /\ client[c].reconnectTimer = 0 )
          => client'[c].reconnectTimer = 0
       /\ ("error" \in event'.info /\ c \in event'.who) => event'.cb = "onError"]_vars

\* the connection has given up: it is not closed, its attempts are used up,
\* no timer and no connect() is pending and every transport it made is closed
GaveUp(c) ==
  /\ ~client[c].isClosing
  /\ ~client[c].isConnected
  /\ client[c].reconnectAttempts >= MaxAttempts(client[c])
  /\ client[c].reconnectTimer = 0
  /\ InFlight(c) = 0
  /\ \A t \in TransportIds : transport[t].owner = c => transport[t].readyState = "closed"

\* C7: a startStream that names the instrument and kind of a connection that
\* has given up makes a connect attempt for that instrument and kind.
C7_StartStreamResumes ==
  [][\A c \in ClientIds :
       (GaveUp(c) /\ c \in event'.skipped) =>
         /\ "connect" \in event'.info
         /\ \E d \in event'.who :
              /\ client'[d].key = client[c].key
              /\ client'[d].type = client[c].type]_vars

\* baseInterval doubled n times
RECURSIVE Doubled(_, _)
Doubled(baseInterval, n) ==
  IF n = 0 THEN baseInterval ELSE 2 * Doubled(baseInterval, n - 1)

\* the delay of attempt n: the documented sequence for the defaults, and
\* min(baseInterval * 2^n, 60000) for a configured interval
ExpectedDelay(options, n) ==
  IF options.reconnectInterval = Undefined
  THEN IF n < 4 THEN <<5000, 10000, 20000, 40000>>[n + 1] ELSE 60000
  ELSE IF Doubled(options.reconnectInterval.n, n) > 60000
       THEN 60000
       ELSE Doubled(options.reconnectInterval.n, n)

\* C8: the step that arms the reconnect timer of a connection whose attempt
\* counter is n arms it with min(baseInterval * 2^n, 60000): 5000, 10000,
\* 20000, 40000, 60000 and then 60000 with the default interval.
C8_BackoffDelay ==
  [][\A c \in ClientIds :
       (client[c].reconnectTimer = 0 /\ client'[c].reconnectTimer # 0) =>
         /\ client'[c].reconnectTimer
              = ExpectedDelay(client[c].options, client[c].reconnectAttempts)
         /\ client'[c].reconnectAttempts = client[c].reconnectAttempts + 1]_vars

\* the seventh timer in a row of a connection with the default interval
C8_Witness ==
  \E c \in ClientIds :
    /\ client[c].options = DefaultOptions
    /\ "armed" \in event.info
    /\ c \in event.who
    /\ client[c].reconnectAttempts = 7
    /\ client[c].reconnectTimer = 60000

(***************************************************************************)
(* Statements about the quote merge, on the runs of QuoteSpec: the first   *)
(* frame makes the snapshot S, the second and third frame are the deltas.  *)
(***************************************************************************)
\* the record decoded from the i-th frame received
Decoded(i) ==
  parseMessage(received[i].value, "quote",
               [symbol |-> InstrumentX.symbol, market |-> InstrumentX.market], now)

\* the raw code is in the i-th frame with a value that is not null
PresentIn(code, i) ==
  /\ code \in DOMAIN received[i].value.data
  /\ received[i].value.data[code] \notin {Null, Undefined}

\* the attributes the mapping table of the merge names, and the raw codes
\* that drive an attribute
MappedAttributes ==
  UNION { {FIELD_MAPPINGS[i][2][j] : j \in 1..Len(FIELD_MAPPINGS[i][2])} :
            i \in 1..Len(FIELD_MAPPINGS) }

DrivingCodes(attribute) ==
  { FIELD_MAPPINGS[i][1] :
      i \in { k \in 1..Len(FIELD_MAPPINGS) :
                \E j \in 1..Len(FIELD_MAPPINGS[k][2]) : FIELD_MAPPINGS[k][2][j] = attribute } }

\* the snapshot cached for the quote kind of InstrumentX
Snapshot == getLatestData(InstrumentX.symbol, InstrumentX.market, "quote")

\* the value last-write-wins gives an attribute after a snapshot and two deltas
LastWrite(attribute) ==
  IF \E code \in DrivingCodes(attribute) : PresentIn(code, 3) THEN Decoded(3)[attribute]
  ELSE IF \E code \in DrivingCodes(attribute) : PresentIn(code, 2) THEN Decoded(2)[attribute]
  ELSE Decoded(1)[attribute]

\* C9: after a snapshot S and quote deltas D1 then D2, every attribute of
\* the mapping table has D2's decoded value if a raw code that drives it is
\* present in D2, else D1's decoded value if one is present in D1, else the
\* value it has in S.
C9_FieldLevelLastWriteWins ==
  Len(received) = 3 =>
    \A attribute \in MappedAttributes : Snapshot[attribute] = LastWrite(attribute)

\* D1 brought the previous close and the volume, D2 the previous close again
\* with another value: one attribute from D2, one from D1, the rest from S
C9_Witness ==
  /\ Len(received) = 3
  /\ received[1] = Text(QuoteFrame1)
  /\ PresentIn("f45", 2) /\ PresentIn("f47", 2)
  /\ PresentIn("f45", 3) /\ ~PresentIn("f47", 3)
  /\ Decoded(2).previousClose # Decoded(3).previousClose
  /\ Snapshot.previousClose = Decoded(3).previousClose
  /\ Snapshot.volume = Decoded(2).volume
  /\ Snapshot.latestPrice = Decoded(1).latestPrice

\* the present raw fields of frame 2 with those of frame 3 on top
UnionOfPresent ==
  [code \in {c \in DeltaCodes : PresentIn(c, 2) \/ PresentIn(c, 3)} |->
     IF PresentIn(code, 3) THEN received[3].value.data[code]
     ELSE received[2].value.data[code]]

\* the snapshot after the first frame and then the one frame that carries
\* UnionOfPresent
AfterUnion ==
  mergeQuoteData(Decoded(1),
                 parseMessage([received[3].value EXCEPT !.data = UnionOfPresent], "quote",
                              [symbol |-> InstrumentX.symbol,
                               market |-> InstrumentX.market], now))

\* C10: the snapshot after delta A and then delta B has the attributes of the
\* snapshot after the one delta that carries the union of the present raw
\* fields of A and B, with B's value on the codes both carry.
C10_SequentialEqualsUnion ==
  (Len(received) = 3 /\ \E code \in DeltaCodes : PresentIn(code, 2) \/ PresentIn(code, 3)) =>
    \A attribute \in MappedAttributes \cup {"changeAmount", "changePercent"} :
      Snapshot[attribute] = AfterUnion[attribute]

(***************************************************************************)
(* Further statements about the quote merge, on the runs of QuoteSpec.     *)
(***************************************************************************)
\* the record decoded from the frame received last
LastDecoded == Decoded(Len(received))

\* C11: the snapshot made by merging a delta D is a fixed point of merging
\* D again: every attribute, the raw field map, timestamp and svr stay.
C11_MergeIdempotent ==
  Len(received) >= 2 => mergeQuoteData(Snapshot, LastDecoded) = Snapshot

\* the delta merged last changed the latest price and carried a null
C11_Witness ==
  /\ Len(received) = 3
  /\ PresentIn("f43", 3)
  /\ Snapshot.latestPrice # Decoded(1).latestPrice
  /\ \E code \in DeltaCodes :
       code \in DOMAIN received[3].value.data /\ received[3].value.data[code] = Null

\* C12: in the cached quote snapshot, which is the record handed to onData,
\* changeAmount is latestPrice - previousClose and changePercent is
\* changeAmount / previousClose * 100 when previousClose is not zero, and
\* both are undefined when previousClose is zero.
C12_ChangeFollowsPrices ==
  Snapshot # Undefined =>
    IF IsZero(Snapshot.previousClose)
    THEN Snapshot.changeAmount = Undefined /\ Snapshot.changePercent = Undefined
    ELSE /\ Snapshot.changeAmount = NumSub(Snapshot.latestPrice, Snapshot.previousClose)
         /\ NumMul(Snapshot.changePercent, Snapshot.previousClose)
              = NumMul(Snapshot.changeAmount, Num(100))

\* a delta brought a new latest price after the previous close had gone
\* from 8 to 15: the change is recomputed from both
C12_Witness ==
  /\ Len(received) = 3
  /\ received[1] = Text(QuoteFrame1)
  /\ PresentIn("f45", 2) /\ ~PresentIn("f43", 2)
  /\ PresentIn("f43", 3) /\ ~PresentIn("f45", 3)
  /\ ~IsZero(Snapshot.previousClose)
  /\ Snapshot.changeAmount = Num(-15)

\* the frame the step to the primed state received, and its decoded record
NewFrame == received'[Len(received')].value

NewDecoded ==
  parseMessage(NewFrame, "quote",
               [symbol |-> InstrumentX.symbol, market |-> InstrumentX.market], now')

\* C13: the step that merges a delta into a cached snapshot leaves every
\* attribute of the mapping table none of whose driving codes is present in
\* the delta as it was cached, and takes timestamp and svr from the delta.
C13_AbsentAttributesKept ==
  [][(Len(received) >= 1 /\ Len(received') = Len(received) + 1) =>
       /\ \A attribute \in MappedAttributes :
            \/ latestData'[InstrumentX]["quote"][attribute] = Snapshot[attribute]
            \/ \E code \in DrivingCodes(attribute) :
                 /\ code \in DOMAIN NewFrame.data
                 /\ NewFrame.data[code] \notin {Null, Undefined}
       /\ latestData'[InstrumentX]["quote"].timestamp = NewDecoded.timestamp
       /\ latestData'[InstrumentX]["quote"].svr = NewDecoded.svr]_vars

\* after a first frame with price 10 and previous close 8 and a second frame
\* with only the volume, the snapshot has the price, the previous close, the
\* change figures of the first frame and the new volume
C13_Witness ==
  /\ Len(received) = 2
  /\ received[1] = Text(QuoteFrame1)
  /\ DOMAIN received[2].value.data = {"f47"}
  /\ Snapshot.latestPrice = Num(10)
  /\ Snapshot.previousClose = Num(8)
  /\ Snapshot.changeAmount = Num(2)
  /\ Snapshot.changePercent = Num(25)
  /\ Snapshot.volume = Num(1500)
  /\ Snapshot.timestamp # Decoded(1).timestamp

(***************************************************************************)
(* Statements about the frames a connection of any kind receives.          *)
(***************************************************************************)
\* the message-type code of the envelope a text parses to
MessageType(text) == IF text.json THEN Get(text.value, "rt") ELSE Undefined

\* the kind of the connection that owns transport t
KindOf(t) == client[transport[t].owner].type

\* the step delivers a frame: its text, its transport and the payload
\* onmessage hands to the message handler
ArrivedText == received'[1].text
ArrivedOn == received'[1].transport
FrameStep == received' # <<>> /\ LastMessage(ArrivedOn, ArrivedText)
ArrivedPayload == ClientPayload(KindOf(ArrivedOn), ArrivedText)

\* C14: a step that delivers a frame whose message-type code is the
\* heartbeat constant, on a connection of any of the four kinds, invokes no
\* onData, leaves the latest-data cache as it is and stamps the last
\* activity of the connection.
C14_HeartbeatNeverDelivered ==
  [][(FrameStep /\ MessageType(ArrivedText) = Num(RT_HEARTBEAT)) =>
       /\ event'.cb # "onData"
       /\ latestData' = latestData
       /\ client'[transport[ArrivedOn].owner].lastHeartbeat = now]_vars

\* a payload is valid for the news kind when it is a string and for the
\* other kinds when it is not
ValidFor(type, payload) == (type = "news") <=> IsString(payload)

\* C15: a step in which the message handler is handed a payload that is
\* invalid for the kind of its connection writes no cache entry and invokes
\* no callback, and every step in which a frame leads to onData had a
\* payload valid for the kind: a string for news, not a string for quote,
\* trend and detail.
C15_InvalidPayloadDropped ==
  [][FrameStep =>
       /\ (ArrivedPayload # Null /\ ~ValidFor(KindOf(ArrivedOn), ArrivedPayload)) =>
            (latestData' = latestData /\ event'.cb = "none")
       /\ event'.cb = "onData" =>
            (ArrivedPayload # Null /\ ValidFor(KindOf(ArrivedOn), ArrivedPayload))]_vars

\* the last frame was the JSON text of a string, it arrived on a quote
\* connection whose snapshot a frame before it had written, and it was
\* dropped
C15_Witness ==
  /\ received # <<>>
  /\ received[1].text = JsonString
  /\ KindOf(received[1].transport) = "quote"
  /\ event = NoEvent
  /\ latestData[InstrumentX]["quote"] # Undefined

\* C16: a step that delivers a frame that cannot be decoded (text that is
\* not JSON, trend, detail or news content that is malformed) invokes
\* neither onData nor onError, leaves the cache as it is and leaves the
\* connection and its transport as they are but for the last-activity stamp.
C16_UndecodableFrameDropped ==
  [][(FrameStep /\ ArrivedText \in UndecodableTexts) =>
       /\ event'.cb = "none"
       /\ latestData' = latestData
       /\ transport' = transport
       /\ client' = [client EXCEPT ![transport[ArrivedOn].owner].lastHeartbeat = now]
       /\ clients' = clients]_vars

(***************************************************************************)
(* Statements about the token, the heartbeat timer and close().            *)
(***************************************************************************)
\* C17: whenever the token request of a connect() ends, by a token or by a
\* failure, the connect() creates its transport, reports nothing to
\* onError and startStream does not throw.
C17_TokenFailureNeverAborts ==
  [][/\ \A call \in calls :
          call \notin calls' =>
            /\ "thrown" \notin event'.info
            /\ event'.cb # "onError"
            /\ Len(transport') = Len(transport) + 1
            /\ client'[call.awaiting].eventSource = Len(transport')
     /\ \A c \in ClientIds :
          timerConnects'[c] < timerConnects[c] =>
            /\ event'.cb # "onError"
            /\ Len(transport') = Len(transport) + 1
            /\ client'[c].eventSource = Len(transport')]_vars

\* C18: whenever no startStream call is in flight, that is after every
\* startStream, stopStream and stopAll call made so far has completed, the
\* heartbeat scan timer is armed if and only if a connection is registered.
C18_TimerArmedIffRegistered ==
  calls = {} => (heartbeatInterval <=> Registered # {})

\* C19: a step in which a frame writes the cache entry of an (instrument,
\* kind) is a step of the connection registered for that (instrument, kind)
\* at that moment; a transport of a connection that stopStream has closed
\* and unregistered writes nothing.
C19_OnlyRegisteredWrites ==
  [][(FrameStep /\ (latestData' # latestData \/ event'.cb = "onData")) =>
       LET c == transport[ArrivedOn].owner
       IN  clients[ClientKey(client[c].key, client[c].type)] = c]_vars

\* C20: in every state a connection can be in, close() leaves it with no
\* reconnect timer pending, no transport handle and isActive() false, and a
\* second close() right after the first changes nothing; every step that
\* closes a connection leaves it as close() says and its transport closed.
C20_CloseIdempotent ==
  /\ [](\A c \in ClientIds :
          LET once == close(client[c])
          IN  /\ once.reconnectTimer = 0
              /\ once.eventSource = 0
              /\ ~isActive(once)
              /\ close(once) = once)
  /\ [][\A c \in ClientIds :
          ("closed" \in event'.info /\ c \in event'.who) =>
            /\ client'[c] = close(client[c])
            /\ client[c].eventSource # 0 =>
                 transport'[client[c].eventSource].readyState = "closed"]_vars

\* stopStream has just closed a connection whose connect() still awaits the
\* token, before any transport exists
C20_Witness ==
  /\ "closed" \in event.info
  /\ \E c \in event.who :
       /\ client[c].isClosing
       /\ InFlight(c) > 0
       /\ \A t \in TransportIds : transport[t].owner # c

(***************************************************************************)
(* Statements about stopAll, replacement and the order of frames.          *)
(***************************************************************************)
\* C21: a stopAll step leaves every connection that was registered closed
\* (closing flag set, no reconnect timer, no transport handle, its transport
\* closed), no connection registered, no cached value for any instrument
\* and kind, and the heartbeat scan timer stopped.
C21_StopAllClearsEverything ==
  [][StopAll =>
       /\ \A c \in Registered :
            /\ client'[c].isClosing
            /\ client'[c].reconnectTimer = 0
            /\ client'[c].eventSource = 0
            /\ ~isActive(client'[c])
            /\ client[c].eventSource # 0 =>
                 transport'[client[c].eventSource].readyState = "closed"
       /\ \A k \in ClientKeys : clients'[k] = 0
       /\ \A i \in Instruments, k \in Kinds : latestData'[i][k] = Undefined
       /\ ~heartbeatInterval'
       /\ ~isRunning']_vars

\* stopAll has just closed the registered connections of two instruments
\* at once, which no stopStream does
C21_Witness ==
  /\ "closed" \in event.info
  /\ \E c, d \in event.who :
       /\ client[c].key # client[d].key
       /\ client[c].isClosing /\ client[d].isClosing
  /\ \A k \in ClientKeys : clients[k] = 0
  /\ ~heartbeatInterval

\* a trend tuple with at least 8 components, as the point it stands for
IsFullTuple(e) == e.t = "csv" /\ Len(e.parts) >= 8
TrendPoint(e) ==
  [ time |-> e.parts[1],
    price |-> parseFloatOr0(e.parts[2]),
    high |-> parseFloatOr0(e.parts[3]),
    low |-> parseFloatOr0(e.parts[4]),
    open |-> parseFloatOr0(e.parts[5]),
    volume |-> parseIntOr(e.parts[6], 0),
    amount |-> parseFloatOr0(e.parts[7]),
    avgPrice |-> parseFloatOr0(e.parts[8]) ]

\* the value a valid frame of a kind stands for, Null when the text is not a
\* valid frame of the kind: for trend, the points of the tuples with at
\* least 8 components, in the order of the frame
FrameValue(type, text) ==
  IF ~text.json THEN Null
  ELSE IF type = "trend"
  THEN LET frame == text.value
           trends == IF "data" \in DOMAIN frame /\ "trends" \in DOMAIN frame.data
                     THEN frame.data.trends ELSE Null
       IN  IF /\ Get(frame, "rt") = Num(RT_TREND)
              /\ Get(frame, "rc") = Num(0)
              /\ trends.t = "list"
              /\ \A i \in 1..Len(trends.items) : trends.items[i].t = "csv"
              /\ \E i \in 1..Len(trends.items) : IsFullTuple(trends.items[i])
           THEN LET full == SelectSeq(trends.items, IsFullTuple)
                IN  List([i \in 1..Len(full) |-> TrendPoint(full[i])])
           ELSE Null
  ELSE IF type = "detail"
  THEN LET details == parseSSEDetailData(text.value)
       IN  IF details = Thrown THEN Null ELSE details
  ELSE IF type = "news" THEN parseSSENewsData(text, now)
  ELSE Null

\* C22: a step that delivers a valid frame on a trend, detail or news
\* connection invokes onData and leaves as the cache entry of the
\* connection's instrument and kind the value of that frame alone, whatever
\* the entry was before; for trend that value is the list of the points of
\* exactly the tuples with at least 8 components, in frame order.
C22_FrameReplacesEntry ==
  [][(/\ FrameStep
      /\ KindOf(ArrivedOn) \in {"trend", "detail", "news"}
      /\ FrameValue(KindOf(ArrivedOn), ArrivedText) # Null) =>
       LET cl == client[transport[ArrivedOn].owner]
       IN  /\ event'.cb = "onData"
           /\ event'.who = {transport[ArrivedOn].owner}
           /\ latestData'[cl.key][cl.type] = FrameValue(cl.type, ArrivedText)]_vars

\* the second trend frame has just arrived on a trend connection and onData
\* was invoked: the entry is the one point of that frame, its price 0 for
\* text that is not numeric
C22_Witness ==
  /\ received # <<>>
  /\ received[1].text = Text(TrendFrame2)
  /\ KindOf(received[1].transport) = "trend"
  /\ event.cb = "onData"
  /\ Len(latestData[InstrumentX]["trend"].items) = 1
  /\ latestData[InstrumentX]["trend"].items[1].time = Str("09:32")
  /\ latestData[InstrumentX]["trend"].items[1].price = Num(0)

\* the snapshot that the first i frames received give when they are applied
\* one after the other in the order of their arrival
RECURSIVE Replay(_)
Replay(i) ==
  IF i = 1 THEN Decoded(1) ELSE mergeQuoteData(Replay(i - 1), Decoded(i))

\* C23: every frame the connection receives is passed to onData in the step
\* of its arrival, before the next frame arrives, and the cache entry is at
\* all times what the frames received so far give when applied in the order
\* of their arrival, the last one last.
C23_DeliveredInArrivalOrder ==
  /\ [](received # <<>> => Snapshot = Replay(Len(received)))
  /\ [][Len(received') = Len(received) + 1 =>
          /\ event'.cb = "onData"
          /\ event'.who = {transport[1].owner}
          /\ latestData'[InstrumentX]["quote"] =
               IF received = <<>> THEN NewDecoded
               ELSE mergeQuoteData(Snapshot, NewDecoded)]_vars

\* three frames have arrived, the last two with different latest prices:
\* the snapshot has the price of the third
C23_Witness ==
  /\ Len(received) = 3
  /\ PresentIn("f43", 2) /\ received[2].value.data["f43"] = Num(1500)
  /\ PresentIn("f43", 3) /\ received[3].value.data["f43"] = Num(0)
  /\ Snapshot.latestPrice = Num(0)
  /\ event.cb = "onData"

(***************************************************************************)
(* Statements about utils and the storage modules.                         *)
(***************************************************************************)
\* C24: a call of validateMarketAndSymbol whose market argument is a valid
\* market code, 0 included, and whose symbol has the format of that market
\* returns that market.
C24_ProvidedMarketReturned ==
  (/\ ret.op = "validateMarketAndSymbol"
   /\ ret.marketStr.given
   /\ ret.marketStr.chars # <<>>
   /\ parseMarket(ret.marketStr.chars) # Null
   /\ validateStockSymbol(ret.symbol, parseMarket(ret.marketStr.chars))) =>
    ret.outcome = Returned(parseMarket(ret.marketStr.chars))

\* the symbol has an entry in the stored watchlist
InWatchlist(symbol) == \E i \in 1..Len(watchlistFile) : watchlistFile[i].symbol = symbol

\* C25: the stored watchlist never holds two entries for one symbol, and a
\* call of addToWatchlist for a symbol that has an entry, or for a symbol
\* whose format is invalid for the market given, throws and leaves the
\* stored watchlist as it is.
C25_OneEntryPerSymbol ==
  /\ [](\A i, j \in 1..Len(watchlistFile) :
          watchlistFile[i].symbol = watchlistFile[j].symbol => i = j)
  /\ [][(/\ ret'.op = "addToWatchlist"
          /\ (InWatchlist(ret'.symbol) \/ ~validateStockSymbol(ret'.symbol, ret'.market))) =>
           /\ ~ret'.outcome.ok
           /\ watchlistFile' = watchlistFile]_vars

\* addToWatchlist has just thrown for a symbol that has an entry, added
\* under another market, while the watchlist holds two entries
C25_Witness ==
  /\ ret.op = "addToWatchlist"
  /\ ret.outcome = Threw("already in the watchlist")
  /\ Len(watchlistFile) = 2
  /\ \E i \in 1..2 :
       watchlistFile[i].symbol = ret.symbol /\ watchlistFile[i].market # ret.market


(***************************************************************************)
(* The K-line cache.                                                       *)
(***************************************************************************)
\* the records of the file before the step; none when the file does not exist
CachedBefore(filePath) ==
  IF cacheFiles[filePath].exists THEN cacheFiles[filePath].data ELSE <<>>

RecordsOf(data) == { data[i] : i \in 1..Len(data) }
DatesOf(data) == { data[i].date : i \in 1..Len(data) }
Occurrences(data, record) == Cardinality({ i \in 1..Len(data) : data[i] = record })

OneRecordPerDate(data) ==
  \A i, j \in 1..Len(data) : i # j => data[i].date # data[j].date

SortedByDate(data) ==
  \A i, j \in 1..Len(data) : i < j => data[i].date <= data[j].date

\* the entry is the merge of the cached and the new records
IsMergeOf(entry, cached, newData) ==
  /\ OneRecordPerDate(entry)
  /\ DatesOf(entry) = DatesOf(cached) \cup DatesOf(newData)
  /\ \A i \in 1..Len(entry) :
       IF entry[i].date \in DatesOf(newData)
       THEN entry[i] \in RecordsOf(newData)
       ELSE entry[i] \in RecordsOf(cached)
  /\ SortedByDate(entry)

\* the entry is the new records, sorted
IsSortedCopyOf(entry, newData) ==
  /\ Len(entry) = Len(newData)
  /\ \A record \in RecordsOf(entry) \cup RecordsOf(newData) :
       Occurrences(entry, record) = Occurrences(newData, record)
  /\ SortedByDate(entry)

SetStep == ret'.op = "setCachedData" /\ SetCall(ret'.filePath, ret'.newData, ret'.merge)

\* C26: after setCachedData with merge enabled the entry holds exactly one
\* record per date of the union of the cached and the new records, the new
\* record winning for a date in both, sorted by date ascending; with merge
\* disabled it holds exactly the new records, sorted by date ascending.
C26_MergeByDate ==
  [][ SetStep =>
        LET entry == cacheFiles'[ret'.filePath].data
        IN  IF ret'.merge
            THEN IsMergeOf(entry, CachedBefore(ret'.filePath), ret'.newData)
            ELSE IsSortedCopyOf(entry, ret'.newData) ]_vars

\* the same, for new records that carry every date once
MergeByDateOfDistinctDates ==
  [][ SetStep /\ OneRecordPerDate(ret'.newData) =>
        LET entry == cacheFiles'[ret'.filePath].data
        IN  IF ret'.merge
            THEN IsMergeOf(entry, CachedBefore(ret'.filePath), ret'.newData)
            ELSE IsSortedCopyOf(entry, ret'.newData) ]_vars

ClearStep == ret'.op = "clearCache" /\ ClearCall(ret'.args)

\* the file is one the call names: it agrees with every parameter passed
NamedBy(args, filePath) ==
  \A parameter \in args.given : filePath[parameter] = args.filePath[parameter]

\* C27: clearCache called for a specific symbol, market and timeframe removes
\* only that cache entry and leaves the entries of every other symbol,
\* market and timeframe as they were; all entries are removed only when
\* clearCache is called with no parameters.
C27_ClearRemovesOnlyNamedEntry ==
  [][ ClearStep =>
        LET args == ret'.args
        IN  /\ args.given = {} => \A k \in CacheKeys : cacheFiles'[k] = NoFile
            /\ args.given = {"symbol", "market", "timeframe", "fqt"}
                 => cacheFiles'[args.filePath] = NoFile
            /\ args.given # {} =>
                 \A k \in CacheKeys :
                   ~NamedBy(args, k) => cacheFiles'[k] = cacheFiles[k] ]_vars

\* the same, for calls that pass all four parameters or none
ClearWithAllOrNoParameters ==
  [][ ClearStep /\ ret'.args.given \in {{}, {"symbol", "market", "timeframe", "fqt"}} =>
        LET args == ret'.args
        IN  /\ args.given = {} => \A k \in CacheKeys : cacheFiles'[k] = NoFile
            /\ args.given # {} =>
                 /\ cacheFiles'[args.filePath] = NoFile
                 /\ \A k \in CacheKeys :
                      k # args.filePath => cacheFiles'[k] = cacheFiles[k] ]_vars

(***************************************************************************)
(* Reconnecting.                                                           *)
(***************************************************************************)
\* the step is eventSource.onerror of a transport of client c
ErrorStep(c) ==
  /\ c \in ClientIds
  /\ event'.cb = "onError" /\ "error" \in event'.info /\ c \in event'.who

\* the state follows eventSource.onerror of a transport of client c
ErrorHandled(c) ==
  /\ c \in ClientIds
  /\ event.cb = "onError" /\ "error" \in event.info /\ c \in event.who

\* the state follows a connect() of the reconnect timer of client c that
\* failed before it had a transport
ReconnectFailed(c) ==
  /\ c \in ClientIds
  /\ event.cb = "onError" /\ event.info = {} /\ c \in event.who

\* a connect attempt for client c is made, c is closed, or its transport has
\* opened again
Reconnects(c) ==
  /\ c \in ClientIds
  /\ \/ "connect" \in event.info /\ c \in event.who
     \/ client[c].isClosing
     \/ client[c].isConnected

BelowMaximum(cl) == cl.reconnectAttempts < MaxAttempts(cl)

TimerPendingAfterError ==
  [][\A c \in ClientIds :
       (ErrorStep(c) /\ ~client[c].isClosing /\ BelowMaximum(client[c]))
         => client'[c].reconnectTimer # 0]_vars

AttemptFollowsError ==
  \A c \in 1..ConnMaxClients :
    (ErrorHandled(c) /\ ~client[c].isClosing /\ client[c].reconnectTimer # 0)
      ~> Reconnects(c)

AttemptFollowsFailedAttempt ==
  \A c \in 1..ConnMaxClients :
    (ReconnectFailed(c) /\ ~client[c].isClosing /\ BelowMaximum(client[c]))
      ~> Reconnects(c)

\* C28: a transport error on a connection that is not closing and whose
\* attempt counter is below the maximum leaves a reconnect timer pending, and
\* a connect attempt for the connection follows unless it is closed first
\* (or its transport opens again by itself); the same holds after every
\* failed attempt until the maximum is reached.
C28_ReconnectsAfterEveryFailure ==
  /\ TimerPendingAfterError
  /\ AttemptFollowsError
  /\ AttemptFollowsFailedAttempt

\* the transports of client c that can still deliver frames or errors
LiveTransports(c) ==
  { t \in TransportIds :
      transport[t].owner = c /\ transport[t].readyState \in {"connecting", "open"} }

AtMostOneLiveTransport ==
  \A c \in ClientIds : Cardinality(LiveTransports(c)) <= 1

CloseClosesEveryTransport ==
  [][\A c \in ClientIds :
       (~client[c].isClosing /\ client'[c].isClosing) =>
         \A t \in TransportIds :
           transport[t].owner = c => transport'[t].readyState = "closed"]_vars

\* C29: a connection has at most one live transport at any time: a transport
\* it opened earlier can deliver no frames and no errors once a reconnect has
\* created a new one, and close() closes every transport the connection
\* ever opened.
C29_OneLiveTransport ==
  /\ []AtMostOneLiveTransport
  /\ CloseClosesEveryTransport

\* the step is eventSource.onopen of transport t
OpenStep(t) ==
  /\ t \in TransportIds
  /\ transport[t].readyState = "connecting"
  /\ transport'[t].readyState = "open"

\* the interval of the first attempt
BaseDelay(cl) ==
  Min(OrDefault(cl.options.reconnectInterval, DEFAULT_RECONNECT_INTERVAL),
      MAX_BACKOFF_INTERVAL)

OpenResets ==
  [][\A t \in TransportIds :
       OpenStep(t) =>
         LET after == client'[transport[t].owner]
         IN  /\ after.reconnectAttempts = 0
             /\ after.isConnected
             /\ isActive(after) <=> ~after.isClosing
             /\ after.lastHeartbeat = now']_vars

\* the first transport error since the open leaves the connection, unless it
\* is closing or allowed no attempts, with a timer of the base delay
BaseDelayAfterOpen ==
  [][\A c \in ClientIds :
       ( /\ ErrorStep(c)
         /\ client[c].failures = 0 /\ client[c].reconnectAttempts = 0
         /\ ~client[c].isClosing /\ MaxAttempts(client[c]) > 0 )
         => client'[c].reconnectTimer = BaseDelay(client[c])]_vars

\* C30: when the transport reports open, the attempt counter is reset to 0,
\* the connection is connected (isActive() unless it is closing) and its
\* last activity is stamped with the time of the open, so the reconnect after
\* the next failure waits the base delay again.
C30_OpenResetsBackoff ==
  /\ OpenResets
  /\ BaseDelayAfterOpen

(***************************************************************************)
(* The heartbeat check and the options.                                    *)
(***************************************************************************)
\* the option as the caller configured it, the default when it is not given
Configured(option, dflt) == IF option = Undefined THEN dflt ELSE option.n

\* more than the heartbeat timeout has passed since the last activity of a
\* connected client
Overdue(cl) ==
  /\ cl.isConnected
  /\ now - cl.lastHeartbeat
       > Configured(cl.options.heartbeatTimeout, DEFAULT_HEARTBEAT_TIMEOUT)

\* C31: checkHeartbeat returns false exactly when the connection is
\* connected and more than its heartbeat timeout has passed since its last
\* frame or open, and then marks it not connected; otherwise it returns true
\* and changes nothing.  The last activity is stamped by frames and opens
\* only.
C31_CheckHeartbeatExact ==
  /\ [][HeartbeatScan =>
          \A c \in Registered :
            IF Overdue(client[c])
            THEN /\ "timedOut" \in event'.info /\ c \in event'.who
                 /\ client'[c] = [client[c] EXCEPT !.isConnected = FALSE]
            ELSE /\ c \notin event'.who
                 /\ client'[c] = client[c]]_vars
  /\ [][\A c \in ClientIds :
          client'[c].lastHeartbeat # client[c].lastHeartbeat =>
            /\ client'[c].lastHeartbeat = now'
            /\ \E t \in TransportIds :
                 transport'[t].owner = c /\ transport'[t].readyState = "open"]_vars

\* a scan has just found a connection overdue, and another scan at the very
\* timeout found it in time
C31_Witness ==
  /\ "timedOut" \in event.info
  /\ \E c \in event.who :
       /\ ~client[c].isConnected
       /\ client[c].options.heartbeatTimeout = Num(TickMs)
       /\ now - client[c].lastHeartbeat = 2 * TickMs

\* the step arms the reconnect timer of client c
ArmStep(c) == client[c].reconnectTimer = 0 /\ client'[c].reconnectTimer # 0

ConfiguredMaxAttempts(cl) ==
  Configured(cl.options.maxReconnectAttempts, DEFAULT_MAX_RECONNECT_ATTEMPTS)

ConfiguredDelay(cl) ==
  Min(Configured(cl.options.reconnectInterval, DEFAULT_RECONNECT_INTERVAL)
        * Pow2(cl.reconnectAttempts),
      MAX_BACKOFF_INTERVAL)

\* a timer is armed only below the configured number of attempts
ConfiguredAttemptsUsed ==
  [][\A c \in ClientIds :
       ArmStep(c) => client[c].reconnectAttempts < ConfiguredMaxAttempts(client[c])]_vars

\* a timer is armed with the delay that the configured interval gives
ConfiguredIntervalUsed ==
  [][\A c \in ClientIds :
       ArmStep(c) => client'[c].reconnectTimer = ConfiguredDelay(client[c])]_vars

\* a scan times out exactly the connections overdue by the configured timeout
ConfiguredTimeoutUsed ==
  [][HeartbeatScan =>
       \A c \in Registered :
         Overdue(client[c]) <=> ("timedOut" \in event'.info /\ c \in event'.who)]_vars

\* C32: configured option values are used as given, the value 0 included:
\* the connection arms no timer once it has made maxReconnectAttempts
\* attempts, arms its timers with the delays of reconnectInterval and is
\* timed out after heartbeatTimeout; the defaults apply only to options that
\* are not given.
C32_ConfiguredOptionsUsed ==
  /\ ConfiguredAttemptsUsed
  /\ ConfiguredIntervalUsed
  /\ ConfiguredTimeoutUsed

(***************************************************************************)
(* News payloads and quote deltas.                                         *)
(***************************************************************************)
\* the text parses as an object whose type is a string and whose seq is a
\* number
IsNewsItem(text) ==
  /\ text.json
  /\ "t" \notin DOMAIN text.value
  /\ Get(text.value, "type").t = "str"
  /\ Get(text.value, "seq").t = "num"

\* C33: a news payload is decoded, cached and forwarded only if it parses as
\* an object whose type is a string and whose seq is a number; every other
\* news payload, one whose type is not a string included, is discarded: it
\* invokes no onData and leaves the cache as it is.
C33_NewsAcceptedOnlyIfWellTyped ==
  [][(FrameStep /\ KindOf(ArrivedOn) = "news" /\ ~IsNewsItem(ArrivedText)) =>
       /\ event'.cb # "onData"
       /\ latestData' = latestData]_vars

\* the same, for payloads whose type is a string or missing
NewsOfStringTypeAcceptedOnlyIfWellTyped ==
  [][(FrameStep /\ KindOf(ArrivedOn) = "news" /\ ~IsNewsItem(ArrivedText)
        /\ ArrivedText # Text(NumberTypeNewsItem)) =>
       /\ event'.cb # "onData"
       /\ latestData' = latestData]_vars

\* the snapshot after the step
SnapshotAfter == latestData'[getStreamKey(InstrumentX.symbol, InstrumentX.market)]["quote"]

\* the raw fields of the frame the step delivers
ArrivedData == received'[Len(received')].value.data

\* the step delivers a quote delta to a cached snapshot
DeltaStep ==
  /\ Len(received') = Len(received) + 1
  /\ Snapshot # Undefined
  /\ SnapshotAfter # Undefined

Absent(data, code) == code \notin DOMAIN data \/ data[code] \in {Null, Undefined}

\* the raw field map of the cached snapshot holds no null and no undefined
RawMapHoldsPresentValues ==
  Snapshot # Undefined =>
    \A code \in DOMAIN Snapshot.rawData : Snapshot.rawData[code] \notin {Null, Undefined}

\* a delta leaves an attribute alone when every raw code that drives it is
\* absent from the delta
AbsentLeavesAttribute ==
  [][DeltaStep =>
       \A attribute \in MappedAttributes :
         (\A code \in DrivingCodes(attribute) : Absent(ArrivedData, code))
           => SnapshotAfter[attribute] = Snapshot[attribute]]_vars

\* a raw code that a delta carries as null keeps the value the raw field map
\* had for it, or stays out of the map
NullLeavesRawValue ==
  [][DeltaStep =>
       \A code \in DOMAIN ArrivedData :
         Absent(ArrivedData, code) =>
           IF code \in DOMAIN Snapshot.rawData
           THEN /\ code \in DOMAIN SnapshotAfter.rawData
                /\ SnapshotAfter.rawData[code] = Snapshot.rawData[code]
           ELSE code \notin DOMAIN SnapshotAfter.rawData]_vars

\* C34: a raw field that is null or undefined in a quote delta counts as
\* absent: it leaves the attribute it drives as it was, it neither replaces
\* nor erases the value the raw field map of the snapshot holds for its
\* code, and the raw field map of every cached snapshot holds only values
\* that are not null.
C34_NullRawFieldIsAbsent ==
  /\ AbsentLeavesAttribute
  /\ NullLeavesRawValue
  /\ []RawMapHoldsPresentValues

(***************************************************************************)
(* startStream and stopStream that overlap.                                *)
(***************************************************************************)
KeysOf(key) == { k \in ClientKeys : k[1] = key }

\* no connection is registered for the instrument
NothingRegistered(key) == \A k \in KeysOf(key) : clients[k] = 0

\* the step resumes the startStream call from its await
Resumes(call) == call \in calls /\ call \notin calls'

\* the connection the call awaits was closed by a stop, nothing has been
\* registered for the instrument since and no other startStream for it is
\* in progress
StoppedAndNotRestarted(call) ==
  /\ client[call.awaiting].isClosing
  /\ NothingRegistered(call.key)
  /\ \A other \in calls \ {call} : other.key # call.key

NoConnectionRegisteredAfterStop ==
  [][\A call \in calls :
       (Resumes(call) /\ StoppedAndNotRestarted(call)) =>
         \A k \in KeysOf(call.key) : clients'[k] = 0]_vars

\* while no connection is registered for an instrument and no startStream
\* for it is in progress, its cache is empty
CacheEmptyWhileStopped ==
  \A inst \in Instruments :
    LET key == getStreamKey(inst.symbol, inst.market)
    IN  (NothingRegistered(key) /\ \A call \in calls : call.key # key)
          => \A type \in Kinds : latestData[key][type] = Undefined

\* C35: after stopStream(X), and as long as no startStream(X) is called
\* afterwards, no connection for X is registered again and the cache of X
\* stays empty, also when a startStream(X) that began earlier is still
\* awaiting the token of one of its kinds at the time of the stop.
C35_StopIsFinal ==
  /\ NoConnectionRegisteredAfterStop
  /\ []CacheEmptyWhileStopped

\* the step is the failure of the connect() of client c inside startStream
ConnectFailsInStart(c) ==
  /\ c \in ClientIds
  /\ event'.cb = "onError" /\ "thrown" \in event'.info /\ c \in event'.who

\* the connect() of client c has just failed inside startStream
ConnectFailedInStart(c) ==
  /\ c \in ClientIds
  /\ event.cb = "onError" /\ "thrown" \in event.info /\ c \in event.who

KeyOfClient(c) == ClientKey(client[c].key, client[c].type)

\* the step begins a startStream of Spec that names the instrument and the
\* kind
StartsFor(key, type) ==
  \E inst \in Instruments, types \in TypeLists, options \in OptionSets, cb \in Callbacks :
    /\ getStreamKey(inst.symbol, inst.market) = key
    /\ \E i \in 1..Len(types.list) : types.list[i] = type
    /\ StartStream(inst, types, options, cb, MaxClients)

\* C36: when the connect() of one kind fails inside startStream, the call
\* fails and leaves no connection registered for that instrument and kind,
\* the connections registered for other kinds, those of the same call
\* included, stay registered, and a startStream that names the kind
\* afterwards does not skip it: it registers a new connection for it or for
\* a kind before it.
C36_FailedKindUnregistered ==
  /\ [][\A c \in ClientIds :
          ConnectFailsInStart(c) =>
            /\ clients'[KeyOfClient(c)] = 0
            /\ \A k \in ClientKeys \ {KeyOfClient(c)} : clients'[k] = clients[k]
            /\ \A call \in calls' : call.awaiting # c]_vars
  /\ [][\A c \in ClientIds :
          (ConnectFailedInStart(c) /\ StartsFor(client[c].key, client[c].type)) =>
            /\ c \notin event'.skipped
            /\ "connect" \in event'.info
            /\ event'.who = {Len(client) + 1}
            /\ clients'[KeyOfClient(c)] \in {0, Len(client) + 1}]_vars

\* the trend connect() of a call has failed and the quote connection of the
\* same call is still registered
C36_Witness ==
  \E c \in ClientIds :
    /\ ConnectFailedInStart(c)
    /\ client[c].type = "trend"
    /\ clients[KeyOfClient(c)] = 0
    /\ clients[ClientKey(client[c].key, "quote")] \in ClientIds \ {c}
    /\ ~client[clients[ClientKey(client[c].key, "quote")]].isClosing

(***************************************************************************)
(* The reconnect counter and timer.                                        *)
(***************************************************************************)
\* the attempt counter is within its bounds and at most one timer callback
\* is pending, the one whose handle the connection holds
CounterAndTimerBounded ==
  \A c \in ClientIds :
    /\ client[c].reconnectAttempts >= 0
    /\ client[c].reconnectAttempts <= ConfiguredMaxAttempts(client[c])
    /\ client[c].timers <= 1
    /\ client[c].timers = 1 <=> client[c].reconnectTimer # 0

\* C37: in every reachable state of a connection the attempt counter is
\* between 0 and the maximum number of attempts and at most one reconnect
\* timer is pending: a transport error that arrives while a timer is pending
\* arms no second timer and does not increment the counter.
C37_OneTimerCounterBounded ==
  /\ []CounterAndTimerBounded
  /\ [][\A c \in ClientIds :
          (ErrorStep(c) /\ client[c].reconnectTimer # 0) =>
            /\ client'[c].timers = client[c].timers
            /\ client'[c].reconnectTimer = client[c].reconnectTimer
            /\ client'[c].reconnectAttempts = client[c].reconnectAttempts]_vars

\* a transport error has just been handled while the timer of the second
\* and last attempt was pending
C37_Witness ==
  \E c \in ClientIds :
    /\ ErrorHandled(c) /\ "armed" \notin event.info
    /\ ~client[c].isClosing
    /\ client[c].timers = 1
    /\ client[c].reconnectAttempts = ConfiguredMaxAttempts(client[c])
    /\ client[c].failures >= 2

(***************************************************************************)
(* stopStream and the other instruments.                                   *)
(***************************************************************************)
\* the clients constructed for the instrument of key
ClientsOf(key) == {c \in ClientIds : client[c].key = key}

\* the step leaves the connections of key as they are: registered, with
\* their flags, counters and timers, and their transports
ConnectionsUntouched(key) ==
  /\ \A k \in KeysOf(key) : clients'[k] = clients[k]
  /\ \A c \in ClientsOf(key) : client'[c] = client[c]
  /\ \A t \in TransportIds :
       transport[t].owner \in ClientsOf(key) => transport'[t] = transport[t]

\* the step leaves the heartbeat interval as it is when a connection of
\* key is registered
HeartbeatKept(key) ==
  (\E k \in KeysOf(key) : clients[k] # 0)
    => (heartbeatInterval' = heartbeatInterval /\ isRunning' = isRunning)

\* C38: stopStream(X) changes nothing that belongs to another instrument Y:
\* every connection registered for Y stays registered, with its open state,
\* its transport and its pending reconnect timer, the cache entries of Y are
\* unchanged, and the heartbeat timer keeps running while a connection of Y
\* remains.
C38_StopLeavesOtherInstruments ==
  [][\A inst \in Instruments :
       StopStream(inst) =>
         \A other \in Instruments \ {inst} :
           LET key == getStreamKey(other.symbol, other.market)
           IN  /\ ConnectionsUntouched(key)
               /\ latestData'[key] = latestData[key]
               /\ HeartbeatKept(key)]_vars

\* X has just been stopped with connections closed, while Y has a cached
\* quote, a registered connection whose reconnect timer is pending and the
\* heartbeat interval running
C38_Witness ==
  LET keyX == getStreamKey(InstrumentX.symbol, InstrumentX.market)
      keyY == getStreamKey(InstrumentY.symbol, InstrumentY.market)
  IN  /\ "closed" \in event.info
      /\ event.who # {}
      /\ \A c \in event.who : client[c].key = keyX
      /\ \E k \in KeysOf(keyY) :
           /\ clients[k] # 0
           /\ client[clients[k]].reconnectTimer # 0
      /\ latestData[keyY]["quote"] # Undefined
      /\ heartbeatInterval

(***************************************************************************)
(* The cache and the values handed to onData.                              *)
(***************************************************************************)
\* every change of a cache entry either drops it or is the write of the
\* value that the same step hands to onData of a connection of the entry's
\* instrument and kind
CacheChangesWithOnData ==
  [][\A inst \in Instruments, kind \in Kinds :
       LET key == getStreamKey(inst.symbol, inst.market)
       IN  latestData'[key][kind] # latestData[key][kind] =>
             \/ latestData'[key][kind] = Undefined
             \/ /\ event'.cb = "onData"
                /\ \E c \in event'.who : client[c].key = key /\ client[c].type = kind
                /\ event'.data = latestData'[key][kind]]_vars

\* after a step that invoked onData the cache entry of the connection is
\* the value handed over, and it was already there when onData was invoked
OnDataValueIsCached ==
  event.cb = "onData" =>
    \A c \in event.who :
      /\ latestData[client[c].key][client[c].type] = event.data
      /\ event.seen = event.data

\* the record the handler decodes from a text on a quote connection, Null
\* for a text it does not forward
QuoteOf(text) ==
  LET payload == ClientPayload("quote", text)
  IN  IF payload = Null THEN Null
      ELSE IF ~isValidDataType(payload, "quote") THEN Null
      ELSE parseMessage(payload, "quote",
                        [symbol |-> InstrumentX.symbol, market |-> InstrumentX.market], now)

\* the merge of the quote frames among the first i texts delivered since
\* the cache was dropped, in the order of their arrival
RECURSIVE MergeOfFrames(_)
MergeOfFrames(i) ==
  IF i = 0 THEN Undefined
  ELSE LET before == MergeOfFrames(i - 1)
           quote == QuoteOf(received[i])
       IN  IF quote \in {Null, Thrown} THEN before
           ELSE IF before = Undefined THEN quote
           ELSE mergeQuoteData(before, quote)

\* C39: whenever getLatestData(X, kind) returns a value, it is the value
\* most recently handed to onData for (X, kind) since the cache of X was
\* last dropped; for the quote kind it is the merge of all quote frames
\* delivered since then; and the cache is written before onData is invoked.
C39_CacheIsLastOnDataValue ==
  /\ CacheChangesWithOnData
  /\ []OnDataValueIsCached
  /\ [](Snapshot # Undefined => Snapshot = MergeOfFrames(Len(received)))

\* the instrument was stopped and started again by another caller; since
\* then the full frame and the price frame have arrived, with a heartbeat
\* between them, and the snapshot handed to the second caller has the
\* price of the last frame and the previous close of the first
C39_Witness ==
  /\ received = << Text(QuoteFrame1), Text(HeartbeatFrame), Text(PriceFrame) >>
  /\ \E c \in ClientIds : client[c].isClosing /\ client[c].cb = "cb1"
  /\ event.cb = "onData"
  /\ \A c \in event.who : client[c].cb = "cb2" /\ ~client[c].isClosing
  /\ event.data = Snapshot
  /\ Snapshot.latestPrice = QuoteOf(Text(PriceFrame)).latestPrice
  /\ Snapshot.latestPrice # QuoteOf(Text(QuoteFrame1)).latestPrice
  /\ Snapshot.previousClose = QuoteOf(Text(QuoteFrame1)).previousClose
====
